---- MODULE Spec2Model ----
(***************************************************************************)
(* Model of the Smart Solar Energy Planner (src/src/App.jsx).              *)
(*                                                                         *)
(*   SpecCalc   the pure calculation engine: calculateDeviceMetrics and    *)
(*              calculateBuildingTotals applied to bounded inventories     *)
(*   SpecDevice calculateDeviceMetrics applied to one device and tariff    *)
(*   SpecStore  the storage operations of useEnergyData (addRoom,          *)
(*              addDevice, deleteDevice, deleteRoom and its cascade)       *)
(*   SpecAdvise generateLLMRecommendation against every behaviour of the   *)
(*              advisory service                                           *)
(*   Spec       RecommendationsView inside App: navigation, snapshot       *)
(*              deliveries, the mount effect, the generate button and the  *)
(*              advisory call of generateLLMRecommendation                 *)
(*   SpecSettings the settings document, its listener and the upserts of   *)
(*              updateSolarSettings                                        *)
(*   SpecForm   the add-device form of RoomDeviceManager and               *)
(*              handleAddDevice                                            *)
(*   SpecBoot   App from its mount: useFirebase, the subscription effect   *)
(*              of useEnergyData, then the views (FairSpecBoot adds the    *)
(*              fairness of the effects and of the sign-in)                *)
(*   SpecCollection the rooms collection, which also holds the settings    *)
(*              document, with its two listeners                           *)
(*                                                                         *)
(* JS Numbers are modelled as IEEE 754 doubles: NaN, the two Infinities,   *)
(* the two zeros, and the finite numbers with a sign, a significand of at  *)
(* most 53 bits and an exponent.  Every operation is rounded to the        *)
(* nearest double (ties to even): it overflows to an Infinity and          *)
(* underflows through the subnormal numbers to a zero.                     *)
(***************************************************************************)
EXTENDS Integers, Sequences, FiniteSets, TLC

VARIABLES
    \* --- SpecCalc / SpecAdvise: one application of calculateBuildingTotals,
    \*     then of generateLLMRecommendation
    calcRooms,        \* argument rooms
    calcDevices,      \* argument devices
    calcSettings,     \* argument solarSettings
    calcDone,         \* whether calculateBuildingTotals has returned
    calcResult,       \* its return value {rooms, building}
    metricDevice,     \* SpecDevice: argument device of calculateDeviceMetrics
    metricRate,       \* SpecDevice: argument rate
    metricDone,       \* SpecDevice: whether calculateDeviceMetrics has returned
    metricResult,     \* SpecDevice: its return value
    advRequest,       \* the per-room payload built for the advisory service
    advOutcome,       \* what the advisory service did with the request
    advDone,          \* whether generateLLMRecommendation has resolved
    advResult,        \* the value it resolved to
    \* --- SpecStore: the document store and the running storage calls
    storeRooms,       \* ids of the room documents in the store
    usedRooms,        \* room ids already handed out by addDoc
    storeDevices,     \* the device documents in the store
    usedDevices,      \* device ids already handed out by addDoc
    delCalls,         \* the deleteRoom invocations, in order of invocation
    pendingDeletes,   \* deleteDoc(d.ref) calls fired by forEach, not yet applied
    \* --- SpecSettings: the settings document and the writes on their way
    settingsDoc,      \* the settings document of the store
    settingsWrites,   \* setDoc calls issued and not yet applied, in order
    settingsSeen,     \* whether the listener was notified of the current document
    settingsListening,\* whether the settings listener is attached (an error ends it)
    \* --- SpecForm: the add-device form of RoomDeviceManager
    newDeviceState,   \* the form's state
    isAddingDevice,   \* whether the form is open
    pendingAdds,      \* handleAddDevice calls awaiting their addDevice
    \* --- Spec: App and RecommendationsView
    view,             \* App's view state
    isDataLoading,    \* useEnergyData's isLoading state
    rooms,            \* useEnergyData's rooms state (last rooms snapshot)
    devices,          \* useEnergyData's devices state (last devices snapshot)
    solarSettings,    \* useEnergyData's solarSettings state
    settingsAreInitial, \* whether that state is the object initialSolarSettings
    roomsWithMetrics, \* the memoized calculateBuildingTotals(...).rooms array
    buildingMetrics,  \* the memoized calculateBuildingTotals(...).building object
    recommendations,  \* RecommendationsView state
    isLoading,        \* RecommendationsView busy flag
    error,            \* RecommendationsView error message
    inflight,         \* advisory requests of the mounted view awaiting their response
    detached,         \* number of requests still awaited whose view has unmounted
    responded,        \* the advisory response handled by the last step, if any
    \* --- SpecBoot: useFirebase and the subscription effect of useEnergyData
    firebasePc,       \* how far the effect of useFirebase has come
    db,               \* the module-level Firestore handle
    userId,           \* useFirebase's userId state
    isAuthReady,      \* useFirebase's isAuthReady state
    subscribed        \* whether useEnergyData's effect has attached the listeners

calcVars  == <<calcRooms, calcDevices, calcSettings, calcDone, calcResult,
               advRequest, advOutcome, advDone, advResult,
               metricDevice, metricRate, metricDone, metricResult>>
storeVars == <<storeRooms, usedRooms, storeDevices, usedDevices, delCalls,
               pendingDeletes>>
viewVars  == <<view, isDataLoading, rooms, devices, solarSettings, settingsAreInitial,
               roomsWithMetrics,
               buildingMetrics, recommendations, isLoading, error, inflight, detached,
               responded>>
settingsVars == <<settingsDoc, settingsWrites, settingsSeen, settingsListening>>
formVars  == <<newDeviceState, isAddingDevice, pendingAdds>>
bootVars  == <<firebasePc, db, userId, isAuthReady, subscribed>>
vars      == <<calcVars, storeVars, viewVars, settingsVars, formVars, bootVars>>

----------------------------------------------------------------------------
(* Bounds of the model *)

MaxRooms == 2
MaxDevices == 2
MaxLifetime == 3
MaxDeleteCalls == 2
MaxCalls == 2
MaxQuantity == 3
MaxWrites == 2

----------------------------------------------------------------------------
(* JS Number arithmetic: IEEE 754 doubles, round to nearest, ties to even *)

(* Natural numbers of any size are sequences of limbs, the least            *)
(* significant first and the last one not 0; <<>> is 0.  The operations on  *)
(* long sequences split them in halves, so that their evaluation nests      *)
(* only as deep as the logarithm of the length.                             *)

\* the base of the limbs
Base == 2^14

\* the length up to which a sequence is walked limb by limb
Short == 2^3

Lo(a) == SubSeq(a, 1, Len(a) \div 2)

Hi(a) == SubSeq(a, Len(a) \div 2 + 1, Len(a))

RECURSIVE Zeros(_)
Zeros(k) ==
    IF k <= 0 THEN <<>>
    ELSE IF k = 1 THEN <<0>>
    ELSE Zeros(k \div 2) \o Zeros(k - k \div 2)

\* a with zero limbs appended up to the length n
Pad(a, n) == a \o Zeros(n - Len(a))

\* a without the zero limbs at its end
BTrim(a) ==
    IF a = <<>> THEN a
    ELSE IF a[Len(a)] # 0 THEN a
    ELSE IF \A i \in 1..Len(a) : a[i] = 0 THEN <<>>
    ELSE SubSeq(a, 1, CHOOSE i \in 1..Len(a) :
                          a[i] # 0 /\ \A j \in (i + 1)..Len(a) : a[j] = 0)

RECURSIVE BFromInt(_)
BFromInt(k) == IF k = 0 THEN <<>> ELSE <<k % Base>> \o BFromInt(k \div Base)

RECURSIVE BToInt(_)
BToInt(a) == IF a = <<>> THEN 0 ELSE a[1] + Base * BToInt(Tail(a))

Limb(a, i) == IF i <= Len(a) THEN a[i] ELSE 0

Longer(a, b) == IF Len(a) >= Len(b) THEN Len(a) ELSE Len(b)

\* the limbs of a + b + c for a and b of one length, then the carry
RECURSIVE BAddC(_, _, _)
BAddHi(lo, a, b) == SubSeq(lo, 1, Len(lo) - 1) \o BAddC(a, b, lo[Len(lo)])

BAddC(a, b, c) ==
    IF a = <<>> THEN <<c>>
    ELSE IF Len(a) <= Short
    THEN <<(a[1] + b[1] + c) % Base>> \o BAddC(Tail(a), Tail(b), (a[1] + b[1] + c) \div Base)
    ELSE BAddHi(BAddC(Lo(a), Lo(b), c), Hi(a), Hi(b))

\* a + b
BAdd(a, b) == BTrim(BAddC(Pad(a, Longer(a, b)), Pad(b, Longer(a, b)), 0))

\* the limbs of a - b - c for a and b of one length, then the borrow
RECURSIVE BSubC(_, _, _)
BSubHi(lo, a, b) == SubSeq(lo, 1, Len(lo) - 1) \o BSubC(a, b, lo[Len(lo)])

BSubC(a, b, c) ==
    IF a = <<>> THEN <<c>>
    ELSE IF Len(a) <= Short
    THEN <<(a[1] - b[1] - c + Base) % Base>>
         \o BSubC(Tail(a), Tail(b), IF a[1] - b[1] - c < 0 THEN 1 ELSE 0)
    ELSE BSubHi(BSubC(Lo(a), Lo(b), c), Hi(a), Hi(b))

\* a - b for a >= b
BSub(a, b) == BTrim(SubSeq(BSubC(a, Pad(b, Len(a)), 0), 1, Len(a)))

\* -1, 0, 1 as a < b, a = b, a > b, for a and b of one length
RECURSIVE BCmpLimbs(_, _)
BCmpLo(hi, a, b) == IF hi # 0 THEN hi ELSE BCmpLimbs(a, b)

BCmpLimbs(a, b) ==
    IF a = <<>> THEN 0
    ELSE IF Len(a) <= Short
    THEN (IF a[Len(a)] < b[Len(a)] THEN -1
          ELSE IF a[Len(a)] > b[Len(a)] THEN 1
          ELSE BCmpLimbs(SubSeq(a, 1, Len(a) - 1), SubSeq(b, 1, Len(a) - 1)))
    ELSE BCmpLo(BCmpLimbs(Hi(a), Hi(b)), Lo(a), Lo(b))

BCmp(a, b) ==
    IF Len(a) < Len(b) THEN -1
    ELSE IF Len(a) > Len(b) THEN 1
    ELSE BCmpLimbs(a, b)

\* the limbs of a * k + c for 0 <= k, c < Base, then the carry
RECURSIVE BMulSmallC(_, _, _)
BMulSmallHi(lo, a, k) == SubSeq(lo, 1, Len(lo) - 1) \o BMulSmallC(a, k, lo[Len(lo)])

BMulSmallC(a, k, c) ==
    IF a = <<>> THEN <<c>>
    ELSE IF Len(a) <= Short
    THEN <<(a[1] * k + c) % Base>> \o BMulSmallC(Tail(a), k, (a[1] * k + c) \div Base)
    ELSE BMulSmallHi(BMulSmallC(Lo(a), k, c), Hi(a), k)

BMulSmall(a, k) == BTrim(BMulSmallC(a, k, 0))

\* a * Base^n
BShiftLimbs(a, n) == IF a = <<>> THEN a ELSE Zeros(n) \o a

\* a * b, the limbs of b need not be trimmed
RECURSIVE BMul(_, _)
BMul(a, b) ==
    IF a = <<>> \/ b = <<>> THEN <<>>
    ELSE IF Len(b) = 1 THEN BMulSmall(a, b[1])
    ELSE BAdd(BMul(a, Lo(b)), BShiftLimbs(BMul(a, Hi(b)), Len(b) \div 2))

RECURSIVE Pow2(_)
Pow2(k) == IF k = 0 THEN 1 ELSE 2 * Pow2(k - 1)

\* a * 2^bits
BShl(a, bits) == BShiftLimbs(BMulSmall(a, Pow2(bits % 14)), bits \div 14)

\* the remainder of (r * Base^Len(a) + a) / k, then the limbs of the
\* quotient, for 0 <= r < k <= Base: from the top limb down
RECURSIVE BDivSmallR(_, _, _)
BDivSmallLo(hi, a, k) ==
    IF hi[1] = 0 THEN BDivSmallR(a, k, 0) \o Tail(hi)
    ELSE BDivSmallR(a, k, hi[1]) \o Tail(hi)

BDivSmallR(a, k, r) ==
    IF a = <<>> THEN <<r>>
    ELSE IF Len(a) <= Short
    THEN BDivSmallR(SubSeq(a, 1, Len(a) - 1), k, (r * Base + a[Len(a)]) % k)
         \o <<(r * Base + a[Len(a)]) \div k>>
    ELSE BDivSmallLo(BDivSmallR(Hi(a), k, r), Lo(a), k)

\* floor(a / k) and a % k for 0 < k <= Base
BDivSmall(a, k) == BTrim(Tail(BDivSmallR(a, k, 0)))

BModSmall(a, k) == BDivSmallR(a, k, 0)[1]

\* floor(a / 2^bits)
BShr(a, bits) ==
    IF bits \div 14 >= Len(a) THEN <<>>
    ELSE BDivSmall(SubSeq(a, bits \div 14 + 1, Len(a)), Pow2(bits % 14))

RECURSIVE BitLen(_)
BitLen(k) == IF k = 0 THEN 0 ELSE 1 + BitLen(k \div 2)

BBitLen(a) == IF a = <<>> THEN 0 ELSE 14 * (Len(a) - 1) + BitLen(a[Len(a)])

\* bit i of a (bit 0 the lowest)
BBit(a, i) == (Limb(a, i \div 14 + 1) \div Pow2(i % 14)) % 2

\* whether a % 2^bits # 0
BLowBits(a, bits) ==
    \/ \E i \in 1..(bits \div 14) : Limb(a, i) # 0
    \/ Limb(a, bits \div 14 + 1) % Pow2(bits % 14) # 0

\* floor(a / b) for b of 4 limbs with b[4] >= Base / 2 and a < b * Base:
\* one digit of the long division, estimated from the top limbs and
\* corrected downwards
RECURSIVE BDigitFrom(_, _, _)
BDigitFrom(a, b, q) ==
    IF BCmp(BMulSmall(b, q), a) = 1 THEN BDigitFrom(a, b, q - 1) ELSE q

BDigit(a, b) ==
    IF (Limb(a, 5) * Base + Limb(a, 4)) \div b[4] >= Base
    THEN BDigitFrom(a, b, Base - 1)
    ELSE BDigitFrom(a, b, (Limb(a, 5) * Base + Limb(a, 4)) \div b[4])

\* the quotient floor(a * Base^k / b) of the long division, with its last
\* bit set when the division leaves a remainder (a < b, b as above)
RECURSIVE BLongDiv(_, _, _, _)
RECURSIVE BLongDivStep(_, _, _, _, _)
BLongDiv(a, b, k, q) ==
    IF a = <<>> THEN BShl(q, 14 * k + 1)
    ELSE IF k = 0 THEN BAdd(BShl(q, 1), <<1>>)
    ELSE BLongDivStep(<<0>> \o a, b, k, q, BDigit(<<0>> \o a, b))

BLongDivStep(a, b, k, q, digit) ==
    IF digit = 0 THEN BLongDiv(a, b, k - 1, BTrim(<<0>> \o q))
    ELSE BLongDiv(BSub(a, BMulSmall(b, digit)), b, k - 1, <<digit>> \o q)

\* 10^k, by squaring
BSquare(a) == BMul(a, a)

RECURSIVE BPow10(_)
BPow10(k) ==
    IF k = 0 THEN <<1>>
    ELSE IF k % 2 = 1 THEN BMulSmall(BPow10(k - 1), 10)
    ELSE BSquare(BPow10(k \div 2))

\* from <<d>> \o a, d in 0..1, to <<d'>> \o floor(a / 10^k), where d' is 1
\* when d is or when the division leaves a remainder
RECURSIVE BDivPow10R(_, _)
BDivPow10Flag(d, q) == <<IF d = 1 \/ q[1] # 0 THEN 1 ELSE 0>> \o Tail(q)

BDivPow10R(p, k) ==
    IF Len(p) = 1 \/ k = 0 THEN p
    ELSE IF k <= 4 THEN BDivPow10Flag(p[1], BDivSmallR(Tail(p), 10^k, 0))
    ELSE BDivPow10R(BDivPow10R(p, k \div 2), k - k \div 2)

\* floor(a / 10^k)
BDivPow10(a, k) == BTrim(Tail(BDivPow10R(<<0>> \o a, k)))

\* 2 * floor(a / 10^k), plus one when the division leaves a remainder
BDivPow10Sticky(a, k) ==
    BAdd(BShl(BDivPow10(a, k), 1), BFromInt(BDivPow10R(<<0>> \o a, k)[1]))

\* the number of digits of the decimal numeral of a > 0: 2^(b-1) <= a < 2^b
\* leaves floor(b * log 2) and one more to choose from
BDecimalLen(a) ==
    IF BCmp(a, BPow10((BBitLen(a) * 30103) \div 100000)) = -1
    THEN (BBitLen(a) * 30103) \div 100000
    ELSE (BBitLen(a) * 30103) \div 100000 + 1

(* A Number is a record: NaN; an Infinity of sign s; a zero of sign s (m   *)
(* empty); or the finite s * m * 2^e, where m has 53 bits and MinExponent  *)
(* <= e <= MaxExponent (a normal number), or m has fewer bits and e is     *)
(* MinExponent (a subnormal number).                                       *)

\* the exponents of the least and the greatest unit in the last place
MinExponent == 1 - 1023 - 52
MaxExponent == 1023 - 52

NaN == [s |-> 1, m |-> <<>>, e |-> 0, inf |-> FALSE, nan |-> TRUE]

Inf(s) == [s |-> s, m |-> <<>>, e |-> 0, inf |-> TRUE, nan |-> FALSE]

Infinity == Inf(1)

SignedZero(s) == [s |-> s, m |-> <<>>, e |-> 0, inf |-> FALSE, nan |-> FALSE]

Zero == SignedZero(1)

Finite(s, m, e) == [s |-> s, m |-> m, e |-> e, inf |-> FALSE, nan |-> FALSE]

\* s * m * 2^e for m of at most 53 bits: a zero when nothing is left of m,
\* an Infinity when the exponent is beyond the greatest one
Ranged(s, m, e) ==
    IF m = <<>> THEN SignedZero(s)
    ELSE IF e > MaxExponent THEN Inf(s)
    ELSE Finite(s, m, e)

\* q * 2^e, one added to q when the dropped bits round up
RoundUp(s, q, e, up) ==
    IF ~up THEN Ranged(s, q, e)
    ELSE IF BBitLen(BAdd(q, <<1>>)) > 53 THEN Ranged(s, BShr(BAdd(q, <<1>>), 1), e + 1)
    ELSE Ranged(s, BAdd(q, <<1>>), e)

\* the exponent of the double that holds n * 2^e: the one that leaves n 53
\* bits, and MinExponent when that is below it
TargetExponent(n, e) ==
    IF e + BBitLen(n) - 53 < MinExponent THEN MinExponent ELSE e + BBitLen(n) - 53

\* s * n * 2^e brought to the exponent t, ties to the even significand
RoundTo(s, n, e, t) ==
    IF t <= e THEN Ranged(s, BShl(n, e - t), t)
    ELSE RoundUp(s, BShr(n, t - e), t,
                 /\ BBit(n, t - e - 1) = 1
                 /\ (BLowBits(n, t - e - 1) \/ BBit(n, t - e) = 1))

\* the double nearest to s * n * 2^e, ties to the even significand: an
\* Infinity beyond the greatest double, a subnormal number or a zero below
\* the least normal one
Round(s, n, e) ==
    IF n = <<>> THEN SignedZero(s) ELSE RoundTo(s, n, e, TargetExponent(n, e))

Abs(x) == IF x < 0 THEN -x ELSE x

Whole(k) == Round(IF k < 0 THEN -1 ELSE 1, BFromInt(Abs(k)), 0)

\* the Number of the decimal numeral digits * 10^exponent, as a literal of
\* the source or Number(text) yields it
Decimal(digits, exponent) ==
    IF exponent >= 0
    THEN Round(IF digits < 0 THEN -1 ELSE 1,
               BMul(BFromInt(Abs(digits)), BPow10(exponent)), 0)
    ELSE Round(IF digits < 0 THEN -1 ELSE 1,
               BDivPow10Sticky(BShl(BFromInt(Abs(digits)), 64 - 4 * exponent),
                               -exponent),
               4 * exponent - 65)

IsFinite(a) == ~a.inf /\ ~a.nan

IsZero(a) == IsFinite(a) /\ a.m = <<>>

\* -a
Neg(a) == IF a.nan THEN a ELSE [a EXCEPT !.s = -(a.s)]

\* a + b for finite a, b # 0 with a.e >= b.e
AddAligned(a, an, b) ==
    IF a.s = b.s THEN Round(a.s, BAdd(an, b.m), b.e)
    ELSE IF BCmp(an, b.m) = 0 THEN Zero
    ELSE IF BCmp(an, b.m) = 1 THEN Round(a.s, BSub(an, b.m), b.e)
    ELSE Round(b.s, BSub(b.m, an), b.e)

AddOrdered(a, b) ==
    IF a.e - b.e > 55 THEN a ELSE AddAligned(a, BShl(a.m, a.e - b.e), b)

\* a + b
Add(a, b) ==
    IF a.nan \/ b.nan THEN NaN
    ELSE IF a.inf THEN (IF b.inf /\ b.s # a.s THEN NaN ELSE a)
    ELSE IF b.inf THEN b
    ELSE IF IsZero(a) /\ IsZero(b) THEN SignedZero(IF a.s = -1 /\ b.s = -1 THEN -1 ELSE 1)
    ELSE IF IsZero(a) THEN b
    ELSE IF IsZero(b) THEN a
    ELSE IF a.e >= b.e THEN AddOrdered(a, b) ELSE AddOrdered(b, a)

\* a - b
Sub(a, b) == Add(a, Neg(b))

\* a * b
Mul(a, b) ==
    IF a.nan \/ b.nan THEN NaN
    ELSE IF a.inf \/ b.inf
    THEN (IF IsZero(a) \/ IsZero(b) THEN NaN ELSE Inf(a.s * b.s))
    ELSE IF IsZero(a) \/ IsZero(b) THEN SignedZero(a.s * b.s)
    ELSE Round(a.s * b.s, BMul(a.m, b.m), a.e + b.e)

\* the significand of a finite a # 0 shifted to 53 bits
Significand(a) == BShl(a.m, 53 - BBitLen(a.m))

\* the exponent that goes with it
Exponent(a) == a.e - (53 - BBitLen(a.m))

\* a / b
Div(a, b) ==
    IF a.nan \/ b.nan THEN NaN
    ELSE IF a.inf THEN (IF b.inf THEN NaN ELSE Inf(a.s * b.s))
    ELSE IF b.inf THEN SignedZero(a.s * b.s)
    ELSE IF IsZero(b) THEN (IF IsZero(a) THEN NaN ELSE Inf(a.s * b.s))
    ELSE IF IsZero(a) THEN SignedZero(a.s * b.s)
    ELSE Round(a.s * b.s,
               BLongDiv(BShl(Significand(a), 2), BShl(Significand(b), 3), 4, <<>>),
               Exponent(a) - Exponent(b) - 56)

\* the double nearest to n/d (d # 0): the value of a decimal literal
Num(n, d) == Div(Whole(n), Whole(d))

\* -1, 0, 1 as a finite number is negative, zero, positive
Sign(a) == IF IsZero(a) THEN 0 ELSE a.s

\* |a| < |b| for finite a, b # 0
MagnitudeLt(a, b) == a.e < b.e \/ (a.e = b.e /\ BCmp(a.m, b.m) = -1)

\* a < b: false when either is NaN
Lt(a, b) ==
    IF a.nan \/ b.nan THEN FALSE
    ELSE IF a.inf THEN a.s = -1 /\ ~(b.inf /\ b.s = -1)
    ELSE IF b.inf THEN b.s = 1
    ELSE IF Sign(a) # Sign(b) THEN Sign(a) < Sign(b)
    ELSE IF Sign(a) = 1 THEN MagnitudeLt(a, b)
    ELSE Sign(a) = -1 /\ MagnitudeLt(b, a)

\* a > b
Gt(a, b) == Lt(b, a)

\* a === b: false when either is NaN, true for the two zeros
Eq(a, b) == ~a.nan /\ ~b.nan /\ (a = b \/ (IsZero(a) /\ IsZero(b)))

\* Math.min(a, b): NaN when either is NaN, and -0 below +0
MathMin(a, b) ==
    IF a.nan \/ b.nan THEN NaN
    ELSE IF Lt(b, a) THEN b
    ELSE IF Lt(a, b) THEN a
    ELSE IF IsZero(a) /\ b.s = -1 THEN b
    ELSE a

\* the whole number a finite x >= 0 holds, its fraction dropped
Trunc(x) ==
    IF IsZero(x) THEN 0
    ELSE IF x.e >= 0 THEN BToInt(BShl(x.m, x.e))
    ELSE BToInt(BShr(x.m, -(x.e)))

\* |x|
Magnitude(x) == IF x.nan THEN x ELSE [x EXCEPT !.s = 1]

\* 2^30
ToleranceScale == Whole(2^30)

\* 2^30 times the least positive Number
ToleranceFloor == Finite(1, <<2^2>>, MinExponent + 28)

\* a and b are the same Number, or two finite ones whose difference is
\* below 2^-30 of their magnitudes or below 2^30 times the least positive
\* Number: equality up to the rounding of the operations that produced
\* them, which is relative for the normal numbers and absolute for the
\* subnormal ones
Near(a, b) ==
    \/ a = b
    \/ /\ IsFinite(a)
       /\ IsFinite(b)
       /\ \/ Lt(Mul(Magnitude(Sub(a, b)), ToleranceScale),
                Add(Magnitude(a), Magnitude(b)))
          \/ Lt(Magnitude(Sub(a, b)), ToleranceFloor)

\* s[1] + ... + s[k] added to acc from left to right, as a += in a loop
RECURSIVE SumFrom(_, _, _)
SumFrom(acc, s, k) ==
    IF k > Len(s) THEN acc ELSE SumFrom(Add(acc, s[k]), s, k + 1)

SumNum(s) == SumFrom(Whole(0), s, 1)

----------------------------------------------------------------------------
(* Program constants *)

WattsPerKW == 1000
RoiCap == 999
\* 365.25 days per year
DaysPerYear == Num(1461, 4)

\* 365.25 / 12
DaysPerMonth == Div(DaysPerYear, Whole(12))

\* the literals 1000 and 999 as Numbers
Thousand == Whole(WattsPerKW)
RoiLimit == Whole(RoiCap)

\* initialSolarSettings
initialSolarSettings ==
    [ electricityRate  |-> Whole(9),
      solarCostPerKW   |-> Whole(70000),
      efficiencyFactor |-> Whole(1),
      sunlightHours    |-> Whole(5),
      lifetimeYears    |-> Whole(25),
      annualInflation  |-> Num(5, 100) ]

----------------------------------------------------------------------------
(* The calculation engine *)

\* variant: a month of 30 days
calculateDeviceMetricsMonth30(device, rate) ==
    LET powerKW      == Div(device.powerW, Thousand)
        energyKWhDay == Mul(Mul(powerKW, device.quantity), device.usageHours)
        costDay      == Mul(energyKWhDay, rate)
    IN  [ energyKWhDay |-> energyKWhDay,
          costDay      |-> costDay,
          costMonth    |-> Mul(costDay, Whole(30)),
          costYear     |-> Mul(costDay, DaysPerYear) ]

calculateDeviceMetrics(device, rate) ==
    LET powerKW      == Div(device.powerW, Thousand)
        energyKWhDay == Mul(Mul(powerKW, device.quantity), device.usageHours)
        costDay      == Mul(energyKWhDay, rate)
    IN  [ energyKWhDay |-> energyKWhDay,
          costDay      |-> costDay,
          costMonth    |-> Mul(costDay, DaysPerMonth),
          costYear     |-> Mul(costDay, DaysPerYear) ]

\* 365.25 * sunlightHours * efficiencyFactor
annualGenerationPerKW(s) ==
    Mul(Mul(DaysPerYear, s.sunlightHours), s.efficiencyFactor)

\* variant: the zero-generation branch returns the consumption instead of 0
requiredCapacityNoZero(energyKWhDay, s) ==
    LET annualConsumptionKWh == Mul(energyKWhDay, DaysPerYear)
        gen                  == annualGenerationPerKW(s)
    IN  IF Gt(gen, Whole(0)) THEN Div(annualConsumptionKWh, gen) ELSE annualConsumptionKWh

\* annualGenerationPerKW > 0 ? annualConsumptionKWh / annualGenerationPerKW : 0
requiredCapacity(energyKWhDay, s) ==
    LET annualConsumptionKWh == Mul(energyKWhDay, DaysPerYear)
        gen                  == annualGenerationPerKW(s)
    IN  IF Gt(gen, Whole(0)) THEN Div(annualConsumptionKWh, gen) ELSE Whole(0)

\* variant: an installation that costs nothing is given no ROI
rawRoiNoneWhenFree(installationCost, yearlySavings) ==
    IF Gt(yearlySavings, Whole(0)) /\ Gt(installationCost, Whole(0))
    THEN Div(installationCost, yearlySavings)
    ELSE Infinity

\* yearlySavings > 0 ? installationCost / yearlySavings : Infinity
rawRoi(installationCost, yearlySavings) ==
    IF Gt(yearlySavings, Whole(0)) THEN Div(installationCost, yearlySavings)
    ELSE Infinity

\* variant: the display cap is left out
clampRoiNone(roiYears) == roiYears

\* Math.min(roiYears, 999)
clampRoi(roiYears) == MathMin(roiYears, RoiLimit)

(* The bodies of the rooms.map callback and of calculateBuildingTotals are   *)
(* written as chains of operators, each local of the source being passed on *)
(* as a parameter once it is computed.                                       *)

\* the metrics object of a room, from the locals computed before it
roomMetricsRecord(roomEnergyKWhDay, roomCostYearGrid, requiredCapacityKW, installationCost) ==
    [ energyKWhDay       |-> roomEnergyKWhDay,
      costYearGrid       |-> roomCostYearGrid,
      requiredCapacityKW |-> IF Gt(requiredCapacityKW, Whole(0))
                             THEN requiredCapacityKW ELSE Whole(0),
      installationCost   |-> installationCost,
      roiYears           |-> clampRoi(rawRoi(installationCost, roomCostYearGrid)),
      yearlySavings      |-> roomCostYearGrid ]

\* installationCost = requiredCapacityKW * solarCostPerKW
roomMetricsFromCapacity(roomEnergyKWhDay, roomCostYearGrid, requiredCapacityKW, s) ==
    roomMetricsRecord(roomEnergyKWhDay, roomCostYearGrid, requiredCapacityKW,
                      Mul(requiredCapacityKW, s.solarCostPerKW))

\* the solar calculations for the room, from its accumulated energy and cost
roomMetrics(roomEnergyKWhDay, roomCostYearGrid, s) ==
    roomMetricsFromCapacity(roomEnergyKWhDay, roomCostYearGrid,
                            requiredCapacity(roomEnergyKWhDay, s), s)

\* roomDevices.map(device => ({...device, metrics})) from the k-th device
\* on, accumulating nothing
RECURSIVE devicesWithMetricsFrom(_, _, _)
devicesWithMetricsFrom(roomDevices, rate, k) ==
    IF k > Len(roomDevices) THEN <<>>
    ELSE << [ device  |-> roomDevices[k],
              metrics |-> calculateDeviceMetrics(roomDevices[k], rate) ] >>
         \o devicesWithMetricsFrom(roomDevices, rate, k + 1)

devicesWithMetricsOf(roomDevices, rate) == devicesWithMetricsFrom(roomDevices, rate, 1)

\* the returned room { ...room, devices: devicesWithMetrics, metrics }: every
\* field of the snapshot element is kept, and the accumulators are the sums
\* over its devices
roomFromDevices(room, devicesWithMetrics, s) ==
    [ devices |-> devicesWithMetrics,
      metrics |->
        roomMetrics(
            SumNum([ i \in 1..Len(devicesWithMetrics) |->
                        devicesWithMetrics[i].metrics.energyKWhDay ]),
            SumNum([ i \in 1..Len(devicesWithMetrics) |->
                        devicesWithMetrics[i].metrics.costYear ]),
            s) ] @@ room

\* variant: only the first device of the room is measured
roomWithMetricsFirstDevice(room, devs, s) ==
    roomFromDevices(room,
        devicesWithMetricsOf(
            LET own == SelectSeq(devs, LAMBDA d : d.roomId = room.id)
            IN  IF own = <<>> THEN <<>> ELSE <<Head(own)>>,
            s.electricityRate),
        s)

\* the callback of rooms.map in calculateBuildingTotals
roomWithMetrics(room, devs, s) ==
    roomFromDevices(room,
        devicesWithMetricsOf(SelectSeq(devs, LAMBDA d : d.roomId = room.id),
                             s.electricityRate),
        s)

\* variant: the grid cost is inflated before it is accumulated
RECURSIVE futureSavingsLoopInflateFirst(_, _, _, _, _)
futureSavingsLoopInflateFirst(i, lifetimeYears, annualInflation, futureSavings, gridCost) ==
    IF Lt(Whole(i), lifetimeYears)
    THEN futureSavingsLoopInflateFirst(i + 1, lifetimeYears, annualInflation,
                           Add(futureSavings, Mul(gridCost, Add(Whole(1), annualInflation))),
                           Mul(gridCost, Add(Whole(1), annualInflation)))
    ELSE futureSavings

\* the for loop of the long-term savings: returns futureSavings
RECURSIVE futureSavingsLoop(_, _, _, _, _)
futureSavingsLoop(i, lifetimeYears, annualInflation, futureSavings, gridCost) ==
    IF Lt(Whole(i), lifetimeYears)
    THEN futureSavingsLoop(i + 1, lifetimeYears, annualInflation,
                           Add(futureSavings, gridCost),
                           Mul(gridCost, Add(Whole(1), annualInflation)))
    ELSE futureSavings

\* rooms.map(room => ...) from the k-th room on
RECURSIVE roomsWithMetricsFrom(_, _, _, _)
roomsWithMetricsFrom(rs, devs, s, k) ==
    IF k > Len(rs) THEN <<>>
    ELSE <<roomWithMetrics(rs[k], devs, s)>> \o roomsWithMetricsFrom(rs, devs, s, k + 1)

\* rooms.map(room => ...): the rooms array of the result
buildingRooms(rs, devs, s) == roomsWithMetricsFrom(rs, devs, s, 1)

\* totalEnergyKWhDay as accumulated inside rooms.map
energyOfRooms(rwm) ==
    SumNum([ i \in 1..Len(rwm) |-> rwm[i].metrics.energyKWhDay ])

\* totalCostYearGrid as accumulated inside rooms.map
costOfRooms(rwm) ==
    SumNum([ i \in 1..Len(rwm) |-> rwm[i].metrics.costYearGrid ])

\* totalEnergyKWhDay after rooms.map has produced the rooms rwm
buildingEnergy(rwm, devs, s) == energyOfRooms(rwm)

\* variant: the building cost is summed over every device, orphans included
buildingCostAllDevices(rwm, devs, s) ==
    SumNum([ i \in 1..Len(devs) |->
                calculateDeviceMetrics(devs[i], s.electricityRate).costYear ])

\* totalCostYearGrid after rooms.map has produced the rooms rwm
buildingCost(rwm, devs, s) == costOfRooms(rwm)

\* variant: paybackYears reuses the capped value
buildingRecordCappedPayback(totalEnergyKWhDay, totalCostYearGrid, totalRequiredCapacityKW, totalInstallationCost, totalROIYears, futureSavings) ==
    [ totalEnergyKWhDay       |-> totalEnergyKWhDay,
      totalCostYearGrid       |-> totalCostYearGrid,
      totalRequiredCapacityKW |-> totalRequiredCapacityKW,
      totalInstallationCost   |-> totalInstallationCost,
      totalROIYears           |-> clampRoi(totalROIYears),
      longTermSavings         |-> Sub(futureSavings, totalInstallationCost),
      paybackYears            |-> clampRoi(totalROIYears),
      yearlySavings           |-> totalCostYearGrid ]

\* the building object, from the locals computed before it
buildingRecord(totalEnergyKWhDay, totalCostYearGrid, totalRequiredCapacityKW, totalInstallationCost, totalROIYears, futureSavings) ==
    [ totalEnergyKWhDay       |-> totalEnergyKWhDay,
      totalCostYearGrid       |-> totalCostYearGrid,
      totalRequiredCapacityKW |-> totalRequiredCapacityKW,
      totalInstallationCost   |-> totalInstallationCost,
      totalROIYears           |-> clampRoi(totalROIYears),
      longTermSavings         |-> Sub(futureSavings, totalInstallationCost),
      paybackYears            |-> totalROIYears,
      yearlySavings           |-> totalCostYearGrid ]

\* totalROIYears and the long-term savings loop
buildingFromCost(totalEnergyKWhDay, totalCostYearGrid, totalRequiredCapacityKW, totalInstallationCost, s) ==
    buildingRecord(totalEnergyKWhDay, totalCostYearGrid, totalRequiredCapacityKW,
                   totalInstallationCost,
                   rawRoi(totalInstallationCost, totalCostYearGrid),
                   futureSavingsLoop(0, s.lifetimeYears, s.annualInflation,
                                     Whole(0), totalCostYearGrid))

\* totalInstallationCost = totalRequiredCapacityKW * solarCostPerKW
buildingFromCapacity(totalEnergyKWhDay, totalCostYearGrid, totalRequiredCapacityKW, s) ==
    buildingFromCost(totalEnergyKWhDay, totalCostYearGrid, totalRequiredCapacityKW,
                     Mul(totalRequiredCapacityKW, s.solarCostPerKW), s)

\* the building-level solar ROI, from the accumulated totals
buildingMetricsOf(totalEnergyKWhDay, totalCostYearGrid, s) ==
    buildingFromCapacity(totalEnergyKWhDay, totalCostYearGrid,
                         requiredCapacity(totalEnergyKWhDay, s), s)

\* variant: the building ROI is the capped sum of the rooms' roiYears
resultOfRoomsSummedRoi(rwm, devs, s) ==
    [ rooms    |-> rwm,
      building |-> [ buildingMetricsOf(buildingEnergy(rwm, devs, s),
                                       buildingCost(rwm, devs, s), s)
                     EXCEPT !.totalROIYears =
                        clampRoi(SumNum([ i \in 1..Len(rwm) |->
                                            rwm[i].metrics.roiYears ])) ] ]

\* the returned object, from the rooms array and the totals accumulated
\* while it was built
resultOfRooms(rwm, devs, s) ==
    [ rooms    |-> rwm,
      building |-> buildingMetricsOf(buildingEnergy(rwm, devs, s),
                                     buildingCost(rwm, devs, s), s) ]

calculateBuildingTotals(rs, devs, s) == resultOfRooms(buildingRooms(rs, devs, s), devs, s)

----------------------------------------------------------------------------
(* SpecCalc: calculateBuildingTotals applied to bounded inputs *)

\* the names the user gave to the rooms, by id
RoomNames == <<"Lab", "Hall", "Office", "Library">>

Room(i) == [id |-> i, name |-> RoomNames[i]]

\* room.name where a view or the advisory request reads it: undefined, here
\* the empty string that handleAddRoom never stores, for a document
\* without a name field
NoName == ""
nameOf(room) == IF "name" \in DOMAIN room THEN room.name ELSE NoName

\* the device parameters the inputs are drawn from
HeaterKind == [quantity |-> Whole(2), powerW |-> Whole(1500), usageHours |-> Whole(6)]

DeviceKinds ==
    { [quantity |-> Whole(1), powerW |-> Whole(100),  usageHours |-> Whole(4)],
      HeaterKind,
      [quantity |-> Whole(0), powerW |-> Whole(100),  usageHours |-> Whole(4)] }

Device(i, r, k) ==
    [id |-> i, roomId |-> r, quantity |-> k.quantity, powerW |-> k.powerW,
     usageHours |-> k.usageHours]

\* room lists in snapshot order (by id): the first n rooms, n <= MaxRooms
RoomLists == { [i \in 1..n |-> Room(i)] : n \in 0..MaxRooms }

\* the rooms devices are put in: the first two of the room list
DeviceRooms == {1, 2}

\* device lists of at most MaxDevices devices, each in one of DeviceRooms
\* (an orphan when that room is not in the room list)
DeviceLists ==
    UNION { { [i \in 1..n |-> Device(i, f[i][1], f[i][2])] :
                f \in [1..n -> DeviceRooms \X DeviceKinds] } : n \in 0..MaxDevices }

\* initialDevice: the parameters of a device added with the form untouched
initialDevice ==
    [quantity |-> Whole(1), powerW |-> Whole(100), usageHours |-> Whole(4)]

\* a device as handleAddDevice stores it when -5 is typed into the power
\* input: no check stands between the form and the engine
UnvalidatedKind == [quantity |-> Whole(1), powerW |-> Whole(-5), usageHours |-> Whole(4)]

\* the device stored when -5 is typed into the quantity input
UnvalidatedQuantityKind ==
    [quantity |-> Whole(-5), powerW |-> Whole(100), usageHours |-> Whole(4)]

\* device lists that hold such a device: alone, next to a device of
\* another room, next to a device of its own room, and outweighing the
\* consumption of another room
UnvalidatedDeviceLists ==
    { <<Device(1, 1, UnvalidatedKind)>>,
      <<Device(1, 1, UnvalidatedKind), Device(2, 2, initialDevice)>>,
      <<Device(1, 1, UnvalidatedKind), Device(2, 1, initialDevice)>>,
      <<Device(1, 1, UnvalidatedQuantityKind), Device(2, 2, initialDevice)>> }

\* devices stored when numbers near the limits of the doubles are typed:
\* 10000 devices of 1.7e308 W that are never used, one device of 1e308 W,
\* three of them, and one device of 1e-310 W
UnusedHugeKind ==
    [quantity |-> Whole(10000), powerW |-> Decimal(17, 307), usageHours |-> Whole(0)]

HugeKind == [quantity |-> Whole(1), powerW |-> Decimal(1, 308), usageHours |-> Whole(1)]

HugeTripleKind == [quantity |-> Whole(3), powerW |-> Decimal(1, 308), usageHours |-> Whole(1)]

TinyKind == [quantity |-> Whole(1), powerW |-> Decimal(1, -310), usageHours |-> Whole(1)]

\* one device of 1e-150 W: its energy is positive and its cost at a tariff
\* of 1e-200 is below the least positive double
FaintKind == [quantity |-> Whole(1), powerW |-> Decimal(1, -150), usageHours |-> Whole(1)]

\* a device of powerW watts used one hour a day
HourlyKind(powerW) == [quantity |-> Whole(1), powerW |-> Whole(powerW), usageHours |-> Whole(1)]

\* three devices in one room, of 0.1, 0.2 and 0.3 kWh a day, in either room
\* and in either order of the list
SharedRoomDeviceLists ==
    { <<Device(1, 1, HourlyKind(100)), Device(2, 1, HourlyKind(200)),
        Device(3, 1, HourlyKind(300))>>,
      <<Device(1, 2, HourlyKind(300)), Device(2, 2, HourlyKind(200)),
        Device(3, 2, HourlyKind(100))>> }

ExtremeDeviceLists ==
    { <<Device(1, 1, UnusedHugeKind)>>,
      <<Device(1, 1, HugeKind)>>,
      <<Device(1, 1, HugeKind), Device(2, 2, initialDevice)>>,
      <<Device(1, 1, HugeTripleKind), Device(2, 2, HugeTripleKind)>>,
      <<Device(1, 1, TinyKind)>> }

SettingsWith(L, infl) ==
    [initialSolarSettings EXCEPT !.lifetimeYears = Whole(L), !.annualInflation = infl]

\* settings whose ROI is 5 years in the reals: in doubles a room of one
\* 100 W device used 4 hours gets 4.999999999999999, a room of two 1500 W
\* devices used 6 hours gets 5
ThresholdSettings ==
    [SettingsWith(1, Num(5, 100)) EXCEPT !.electricityRate = Whole(12),
                                         !.solarCostPerKW = Whole(109575)]

\* the settings every device list is computed under: the defaults, no
\* sunlight, a free and a nearly free tariff, 25% inflation over two years
\* and the threshold settings
CoreSettings ==
    { SettingsWith(1, Num(5, 100)),
      SettingsWith(2, Num(1, 4)),
      [SettingsWith(1, Num(5, 100)) EXCEPT !.sunlightHours = Whole(0)],
      [SettingsWith(1, Num(5, 100)) EXCEPT !.electricityRate = Whole(0)],
      [SettingsWith(1, Num(5, 100)) EXCEPT !.electricityRate = Num(1, 100)],
      ThresholdSettings }

\* the settings the extreme device lists are computed under: the defaults
\* over two years, without inflation, a tariff of 1e-10, a free tariff, an
\* installation cost of 0.001 a kW, and no sunlight
ExtremeSettings ==
    { SettingsWith(2, Num(5, 100)),
      SettingsWith(2, Whole(0)),
      [SettingsWith(2, Num(5, 100)) EXCEPT !.electricityRate = Decimal(1, -10)],
      [SettingsWith(2, Num(5, 100)) EXCEPT !.electricityRate = Whole(0)],
      [SettingsWith(2, Num(5, 100)) EXCEPT !.solarCostPerKW = Decimal(1, -3)],
      [SettingsWith(2, Num(5, 100)) EXCEPT !.sunlightHours = Whole(0)] }

\* the device lists every settings record is computed under: none, one
\* device, and two rooms with a device each
CoreDeviceLists ==
    { <<>>,
      <<Device(1, 1, initialDevice)>>,
      <<Device(1, 1, initialDevice), Device(2, 2, HeaterKind)>> }

\* the settings the inputs are drawn from: every lifetime 0..MaxLifetime
\* without inflation and with 25% inflation, the default 5% inflation over
\* one and two years, and the degenerate and threshold cases of sunlight,
\* efficiency, tariff and installation cost
SettingsPool ==
    { SettingsWith(L, infl) : L \in 0..MaxLifetime, infl \in {Whole(0), Num(1, 4)} }
    \cup { SettingsWith(2, Num(5, 100)),
           SettingsWith(1, Num(5, 100)),
           [SettingsWith(1, Num(5, 100)) EXCEPT !.sunlightHours = Whole(0)],
           [SettingsWith(1, Num(5, 100)) EXCEPT !.efficiencyFactor = Whole(0)],
           [SettingsWith(1, Num(5, 100)) EXCEPT !.electricityRate = Whole(0)],
           [SettingsWith(1, Num(5, 100)) EXCEPT !.solarCostPerKW = Whole(0)],
           [SettingsWith(1, Num(5, 100)) EXCEPT !.solarCostPerKW = Whole(100000)],
           [SettingsWith(1, Num(5, 100)) EXCEPT !.solarCostPerKW = Whole(200000)],
           [SettingsWith(1, Num(5, 100)) EXCEPT !.electricityRate = Num(1, 100)],
           ThresholdSettings }

NoResult == [rooms |-> <<>>, building |-> [none |-> TRUE]]

NoAdvice == [none |-> TRUE]

IdleOutcome == [fetch |-> "idle", body |-> "", text |-> ""]

\* the request is sent and fetch has not settled
FetchPending == [fetch |-> "pending", body |-> "", text |-> ""]

\* fetch has resolved and response.json() has not settled
BodyPending == [fetch |-> "resolves", body |-> "pending", text |-> ""]

NoResponse == [kind |-> "none", outcome |-> IdleOutcome, roomAnalysis |-> <<>>]

NoMetrics == [none |-> TRUE]

MetricIdle ==
    /\ metricDevice = NoMetrics
    /\ metricRate = Whole(0)
    /\ metricDone = FALSE
    /\ metricResult = NoMetrics

AdviseIdle ==
    /\ advRequest = <<>>
    /\ advOutcome = IdleOutcome
    /\ advDone = FALSE
    /\ advResult = NoAdvice

CalcIdle ==
    /\ calcRooms = <<>>
    /\ calcDevices = <<>>
    /\ calcSettings = initialSolarSettings
    /\ calcDone = FALSE
    /\ calcResult = NoResult
    /\ AdviseIdle
    /\ MetricIdle

\* one call calculateBuildingTotals(rooms, devices, solarSettings)
Calculate ==
    /\ ~calcDone
    /\ calcDone' = TRUE
    /\ calcResult' = calculateBuildingTotals(calcRooms, calcDevices, calcSettings)
    /\ UNCHANGED <<calcRooms, calcDevices, calcSettings, advRequest, advOutcome, advDone, advResult>>
    /\ UNCHANGED <<metricDevice, metricRate, metricDone, metricResult>>
    /\ UNCHANGED <<storeVars, viewVars, settingsVars, formVars, bootVars>>

\* the storage side before any operation
StoreIdle ==
    /\ storeRooms = {}
    /\ usedRooms = {}
    /\ storeDevices = {}
    /\ usedDevices = {}
    /\ delCalls = <<>>
    /\ pendingDeletes = {}

\* no settings document
AbsentDoc == [exists |-> FALSE, data |-> <<>>]

SettingsIdle ==
    /\ settingsDoc = AbsentDoc
    /\ settingsWrites = <<>>
    /\ settingsSeen = TRUE
    /\ settingsListening = TRUE

\* no user: userId null
NoUser == 0

\* Firebase is initialised, the anonymous user is signed in and the
\* listeners of useEnergyData are attached
BootDone ==
    /\ firebasePc = "listening"
    /\ db = "firestore"
    /\ userId = 1
    /\ isAuthReady = TRUE
    /\ subscribed = TRUE

\* no room selected: roomId '', which is the id of no document
NoRoom == -1

\* the add-device form as useState initialises it without rooms,
\* { ...initialDevice, roomId: '' }, and no handleAddDevice call running
\* { ...initialDevice, roomId } as the form holds it
formReset(roomId) ==
    [name |-> "New Device", quantity |-> "1", powerW |-> "100", usageHours |-> "4",
     roomId |-> roomId]

FormIdle ==
    /\ newDeviceState = formReset(NoRoom)
    /\ isAddingDevice = FALSE
    /\ pendingAdds = <<>>

Null == [kind |-> "null"]
NoError == "null"

\* App showing view v with loading flag loading, no snapshot delivered:
\* the useState initial values of everything else
ViewAt(v, loading) ==
    /\ view = v
    /\ isDataLoading = loading
    /\ rooms = <<>>
    /\ devices = <<>>
    /\ solarSettings = initialSolarSettings
    /\ settingsAreInitial = TRUE
    /\ roomsWithMetrics = <<>>
    /\ buildingMetrics = calculateBuildingTotals(<<>>, <<>>, initialSolarSettings).building
    /\ recommendations = Null
    /\ isLoading = FALSE
    /\ error = NoError
    /\ inflight = <<>>
    /\ detached = 0
    /\ responded = NoResponse

\* App after construction: useState initial values
ViewIdle == ViewAt("dashboard", TRUE)

InitCalc ==
    /\ calcRooms \in RoomLists
    /\ \/ /\ calcDevices \in DeviceLists \cup UnvalidatedDeviceLists
          /\ calcSettings \in CoreSettings
       \/ /\ calcDevices \in CoreDeviceLists
          /\ calcSettings \in SettingsPool
       \/ /\ calcDevices \in ExtremeDeviceLists
          /\ calcSettings \in ExtremeSettings
       \/ /\ calcDevices \in SharedRoomDeviceLists
          /\ calcSettings \in CoreSettings
    /\ calcDone = FALSE
    /\ calcResult = NoResult
    /\ AdviseIdle
    /\ MetricIdle
    /\ StoreIdle
    /\ SettingsIdle
    /\ FormIdle
    /\ BootDone
    /\ ViewIdle

NextCalc == Calculate

SpecCalc == InitCalc /\ [][NextCalc]_vars

----------------------------------------------------------------------------
(* Claims about calculateBuildingTotals, checked under SpecCalc *)

\* the unclamped ROI recomputed from a returned metrics record
RawOf(installationCost, yearlySavings) ==
    IF Gt(yearlySavings, Whole(0)) THEN Div(installationCost, yearlySavings) ELSE Infinity

\* C7: every returned room has roiYears = min(raw, 999), raw being
\* installationCost / yearlySavings when yearlySavings > 0 and Infinity
\* otherwise: zero savings give 999, a raw value at or below 999 is returned
\* unchanged, and no roiYears exceeds 999.
C7_RoiClamp ==
    calcDone =>
        \A i \in 1..Len(calcResult.rooms) :
            LET m   == calcResult.rooms[i].metrics
                raw == RawOf(m.installationCost, m.yearlySavings)
            IN  /\ m.roiYears = (IF Lt(RoiLimit, raw) THEN RoiLimit ELSE raw)
                /\ ~Lt(RoiLimit, m.roiYears)
                /\ (IsZero(m.yearlySavings) => m.roiYears = RoiLimit)
                /\ (~Lt(RoiLimit, raw) => m.roiYears = raw)

\* a result with a room of zero savings (999), and a room whose raw ROI is
\* finite and above 999 (clamped)
C7_Witness ==
    /\ calcDone
    /\ \E i, j \in 1..Len(calcResult.rooms) :
        LET mi == calcResult.rooms[i].metrics
            mj == calcResult.rooms[j].metrics
        IN  /\ IsZero(mi.yearlySavings)
            /\ mi.roiYears = RoiLimit
            /\ Gt(mj.yearlySavings, Whole(0))
            /\ Lt(RoiLimit, Div(mj.installationCost, mj.yearlySavings))
            /\ mj.roiYears = RoiLimit

\* C8: with sunlightHours = 0 or efficiencyFactor = 0 every room's
\* requiredCapacityKW and the building's totalRequiredCapacityKW are 0.
C8_ZeroGeneration ==
    (calcDone /\ (IsZero(calcSettings.sunlightHours)
                  \/ IsZero(calcSettings.efficiencyFactor))) =>
        /\ \A i \in 1..Len(calcResult.rooms) :
              IsZero(calcResult.rooms[i].metrics.requiredCapacityKW)
        /\ IsZero(calcResult.building.totalRequiredCapacityKW)

\* zero sunlight with a consuming room
C8_Witness ==
    /\ calcDone
    /\ IsZero(calcSettings.sunlightHours)
    /\ \E i \in 1..Len(calcResult.rooms) :
          Gt(calcResult.rooms[i].metrics.energyKWhDay, Whole(0))
    /\ IsZero(calcResult.building.totalRequiredCapacityKW)

\* C9: for every input, the building's totalInstallationCost is the sum of
\* the returned rooms' installationCost.  The building's cost is computed
\* from the total energy and not by adding the rooms' costs, so the two
\* doubles are compared up to their rounding.  Violated: the building's
\* totalEnergyKWhDay * 365.25 can overflow to Infinity when no room's does.
C9_InstallationCostAdditive ==
    calcDone =>
        Near(calcResult.building.totalInstallationCost,
             SumNum([ i \in 1..Len(calcResult.rooms) |->
                         calcResult.rooms[i].metrics.installationCost ]))

\* what holds: the equality up to rounding whenever the building's annual
\* consumption is a finite number
InstallationCostAdditiveWhenFinite ==
    (calcDone /\ IsFinite(Mul(calcResult.building.totalEnergyKWhDay, DaysPerYear))) =>
        Near(calcResult.building.totalInstallationCost,
             SumNum([ i \in 1..Len(calcResult.rooms) |->
                         calcResult.rooms[i].metrics.installationCost ]))

\* the ids of the rooms of a list
RoomIds(rs) == { rs[i].id : i \in 1..Len(rs) }

\* the device has no room in the list
IsOrphan(d, rs) == d.roomId \notin RoomIds(rs)

\* the device list without its orphans
HousedDevices(devs, rs) == SelectSeq(devs, LAMBDA d : ~IsOrphan(d, rs))

\* C20: the building's totalEnergyKWhDay and totalCostYearGrid are the sums
\* of the returned rooms' energyKWhDay and costYearGrid, and the whole
\* result is the one computed without the devices whose roomId matches no
\* room of the list: such a device contributes to no room and no building
\* figure.
C20_BuildingIsRoomSum ==
    calcDone =>
        /\ calcResult.building.totalEnergyKWhDay =
              SumNum([ i \in 1..Len(calcResult.rooms) |->
                          calcResult.rooms[i].metrics.energyKWhDay ])
        /\ calcResult.building.totalCostYearGrid =
              SumNum([ i \in 1..Len(calcResult.rooms) |->
                          calcResult.rooms[i].metrics.costYearGrid ])
        /\ calcResult = calculateBuildingTotals(calcRooms,
                              HousedDevices(calcDevices, calcRooms), calcSettings)

\* a room with consumption next to an orphan device that consumes energy
\* at a positive tariff
C20_Witness ==
    /\ calcDone
    /\ Gt(calcResult.building.totalCostYearGrid, Whole(0))
    /\ \E i \in 1..Len(calcDevices) :
          /\ IsOrphan(calcDevices[i], calcRooms)
          /\ Gt(calculateDeviceMetrics(calcDevices[i], calcSettings.electricityRate).costYear,
                Whole(0))

\* the sum of the returned rooms' roiYears
SumOfRoomRoi ==
    SumNum([ i \in 1..Len(calcResult.rooms) |-> calcResult.rooms[i].metrics.roiYears ])

\* totalROIYears as a function of the returned building totals
RoiFromTotals ==
    calcResult.building.totalROIYears =
        IF Gt(calcResult.building.totalCostYearGrid, Whole(0))
        THEN MathMin(Div(calcResult.building.totalInstallationCost,
                         calcResult.building.totalCostYearGrid), RoiLimit)
        ELSE RoiLimit

\* the returned rooms whose roiYears is positive
RoomsWithPositiveRoi ==
    { i \in 1..Len(calcResult.rooms) :
        Gt(calcResult.rooms[i].metrics.roiYears, Whole(0)) }

C22_CapacityAndCost ==
    calcDone =>
      /\ \A i \in 1..Len(calcResult.rooms) :
            /\ ~Lt(calcResult.rooms[i].metrics.requiredCapacityKW, Whole(0))
            /\ calcResult.rooms[i].metrics.installationCost
                  = Mul(calcResult.rooms[i].metrics.requiredCapacityKW,
                        calcSettings.solarCostPerKW)
      /\ ~Lt(calcResult.building.totalRequiredCapacityKW, Whole(0))
      /\ calcResult.building.totalInstallationCost
            = Mul(calcResult.building.totalRequiredCapacityKW, calcSettings.solarCostPerKW)

RECURSIVE Pow(_, _)
Pow(b, k) == IF k = 0 THEN Whole(1) ELSE Mul(b, Pow(b, k - 1))

\* sum for i = 0 .. years-1 of cost * (1 + inflation)^i
RECURSIVE CompoundedSum(_, _, _)
CompoundedSum(cost, inflation, years) ==
    IF years <= 0 THEN Whole(0)
    ELSE Add(CompoundedSum(cost, inflation, years - 1),
             Mul(cost, Pow(Add(Whole(1), inflation), years - 1)))

IndexPermutations(n) ==
    { p \in [1..n -> 1..n] : \A i, j \in 1..n : p[i] = p[j] => i = j }

\* the energy of the devices of a list that belong to the room, added up
\* device by device
RECURSIVE EnergyOfRoomDevices(_, _, _, _)
EnergyOfRoomDevices(devs, k, roomId, rate) ==
    IF k = 0 THEN Whole(0)
    ELSE Add(EnergyOfRoomDevices(devs, k - 1, roomId, rate),
             IF devs[k].roomId = roomId
             THEN calculateDeviceMetrics(devs[k], rate).energyKWhDay
             ELSE Whole(0))

\* the room's energy for the device list in the order p
PermutedRoomEnergy(room, p) ==
    roomWithMetrics(room, [k \in 1..Len(calcDevices) |-> calcDevices[p[k]]],
                    calcSettings).metrics.energyKWhDay

\* the same Number: equal, or both NaN
SameNumber(a, b) == Eq(a, b) \/ (a.nan /\ b.nan)

NoNegativeEnergy(room) ==
    \A k \in 1..Len(room.devices) : ~Lt(room.devices[k].metrics.energyKWhDay, Whole(0))

C15_PaybackIsClampedRoi ==
    calcDone => calcResult.building.paybackYears = calcResult.building.totalROIYears

\* C15 (amended): paybackYears is the unclamped ratio totalInstallationCost /
\* yearlySavings, Infinity when the yearly savings is not positive, and
\* totalROIYears is min(paybackYears, 999); the two are equal exactly when
\* paybackYears is at most 999.
C15_PaybackIsUnclampedRoi ==
    calcDone =>
      /\ calcResult.building.paybackYears
           = RawOf(calcResult.building.totalInstallationCost,
                   calcResult.building.yearlySavings)
      /\ calcResult.building.totalROIYears
           = MathMin(calcResult.building.paybackYears, RoiLimit)
      /\ Eq(calcResult.building.paybackYears, calcResult.building.totalROIYears)
           <=> \/ Lt(calcResult.building.paybackYears, RoiLimit)
               \/ Eq(calcResult.building.paybackYears, RoiLimit)

\* a building without consumption: paybackYears is Infinity, totalROIYears 999
C15_Witness ==
    /\ calcDone
    /\ Len(calcRooms) > 0
    /\ IsZero(calcResult.building.yearlySavings)
    /\ calcResult.building.paybackYears = Infinity
    /\ calcResult.building.totalROIYears = RoiLimit

----------------------------------------------------------------------------
(* SpecDevice: calculateDeviceMetrics applied to bounded devices and rates *)

\* the values the device fields and the rate are drawn from: everyday
\* ones, and numbers near the limits of the doubles, which the number inputs
\* of the add-device form accept and handleAddDevice stores as typed
QuantityPool == { Whole(k) : k \in 0..MaxQuantity } \cup { Whole(10000), Decimal(1, 10) }
PowerPool ==
    { Whole(0), Whole(60), Whole(1500), Num(15, 2),
      Decimal(17, 307), Decimal(1, 308), Decimal(1, 305), Decimal(1, -310) }
HoursPool == { Whole(0), Num(1, 2), Whole(4), Whole(24) }
RatePool == { Whole(0), Whole(9), Num(13, 2), Decimal(1, -10) }

MetricDevices ==
    { Device(1, 1, [quantity |-> q, powerW |-> w, usageHours |-> h]) :
        q \in QuantityPool, w \in PowerPool, h \in HoursPool }

\* one call calculateDeviceMetrics(device, rate)
Measure ==
    /\ ~metricDone
    /\ metricDone' = TRUE
    /\ metricResult' = calculateDeviceMetrics(metricDevice, metricRate)
    /\ UNCHANGED <<metricDevice, metricRate>>
    /\ UNCHANGED <<calcRooms, calcDevices, calcSettings, calcDone, calcResult>>
    /\ UNCHANGED <<advRequest, advOutcome, advDone, advResult>>
    /\ UNCHANGED <<storeVars, viewVars, settingsVars, formVars, bootVars>>

InitDevice ==
    /\ metricDevice \in MetricDevices
    /\ metricRate \in RatePool
    /\ metricDone = FALSE
    /\ metricResult = NoMetrics
    /\ calcRooms = <<>>
    /\ calcDevices = <<>>
    /\ calcSettings = initialSolarSettings
    /\ calcDone = FALSE
    /\ calcResult = NoResult
    /\ AdviseIdle
    /\ StoreIdle
    /\ SettingsIdle
    /\ FormIdle
    /\ BootDone
    /\ ViewIdle

NextDevice == Measure

SpecDevice == InitDevice /\ [][NextDevice]_vars

----------------------------------------------------------------------------
(* Claims about calculateDeviceMetrics, checked under SpecDevice *)

\* C11: for every device with usageHours = 0 or quantity = 0 and every
\* rate, calculateDeviceMetrics returns energyKWhDay = 0, costDay = 0,
\* costMonth = 0 and costYear = 0.  Violated: when (powerW / 1000) *
\* quantity overflows to Infinity, its product with usageHours = 0 is NaN,
\* and so is every cost.
C11_IdleDeviceCostsNothing ==
    (metricDone /\ (IsZero(metricDevice.usageHours) \/ IsZero(metricDevice.quantity)))
    => /\ IsZero(metricResult.energyKWhDay)
       /\ IsZero(metricResult.costDay)
       /\ IsZero(metricResult.costMonth)
       /\ IsZero(metricResult.costYear)

\* what holds: the four values are 0 whenever (powerW / 1000) * quantity is
\* a finite number
IdleDeviceCostsNothingWhenFinite ==
    ( /\ metricDone
      /\ IsZero(metricDevice.usageHours) \/ IsZero(metricDevice.quantity)
      /\ IsFinite(Mul(Div(metricDevice.powerW, Thousand), metricDevice.quantity)) )
    => /\ IsZero(metricResult.energyKWhDay)
       /\ IsZero(metricResult.costDay)
       /\ IsZero(metricResult.costMonth)
       /\ IsZero(metricResult.costYear)

\* C12: for every device and rate, energyKWhDay = (powerW / 1000) *
\* quantity * usageHours, costDay = energyKWhDay * rate, costYear =
\* costDay * 365.25 and costMonth = costDay * 365.25 / 12, so that
\* costYear = 12 * costMonth.  Every right-hand side is computed in
\* doubles; costMonth is costDay times the quotient 365.25 / 12, and
\* costYear = 12 * costMonth holds to floating-point tolerance.
C12_DeviceFormulas ==
    metricDone
    => /\ metricResult.energyKWhDay
            = Mul(Mul(Div(metricDevice.powerW, Whole(1000)), metricDevice.quantity),
                  metricDevice.usageHours)
       /\ metricResult.costDay = Mul(metricResult.energyKWhDay, metricRate)
       /\ metricResult.costYear = Mul(metricResult.costDay, Num(36525, 100))
       /\ metricResult.costMonth
            = Mul(metricResult.costDay, Div(Num(36525, 100), Whole(12)))
       /\ Near(metricResult.costYear, Mul(Whole(12), metricResult.costMonth))

\* two 1500 W devices used 4 hours a day at the rate 13/2: 12 kWh a day
C12_Witness ==
    /\ metricDone
    /\ metricDevice.quantity = Whole(2)
    /\ metricDevice.powerW = Whole(1500)
    /\ metricDevice.usageHours = Whole(4)
    /\ metricRate = Num(13, 2)
    /\ metricResult.energyKWhDay = Whole(12)
    /\ metricResult.costDay = Whole(78)
    /\ Gt(metricResult.costMonth, Whole(0))

----------------------------------------------------------------------------
(* SpecStore: the storage operations of useEnergyData.  Each await of the   *)
(* source is a step of its own; the document store changes only when a     *)
(* write is applied.                                                       *)

\* addDoc hands out a fresh document id
NextId(used) == Cardinality(used) + 1

\* the ids addDoc may give a room: random strings, so a new room may sort
\* before an older one
RoomIdPool == 1..MaxRooms

\* addRoom: await addDoc(collection(db, roomCollectionPath), roomData), the
\* document getting the unused id i
addRoom(i) ==
    /\ i \in RoomIdPool \ usedRooms
    /\ storeRooms' = storeRooms \cup {i}
    /\ usedRooms' = usedRooms \cup {i}
    /\ UNCHANGED <<storeDevices, usedDevices, delCalls, pendingDeletes>>
    /\ UNCHANGED <<calcVars, viewVars, settingsVars, formVars, bootVars>>

\* the id of the settings document, 'settings', among the room ids 1, 2, ...
SettingsDocId == 0

\* the ids of the documents of the rooms collection: the rooms and, once it
\* is written, the settings document doc(db, roomCollectionPath, 'settings')
roomDocIds == storeRooms \cup (IF settingsDoc.exists THEN {SettingsDocId} ELSE {})

\* the ids the room cards and the room selector of RoomDeviceManager may
\* carry: every element of a rooms snapshot, which may be deleted by now.
\* The settings id is one of them once the document exists, and stays one
\* after a card has deleted it.
RoomCards ==
    usedRooms
    \cup (IF \/ settingsDoc.exists
              \/ \E i \in 1..Len(delCalls) : delCalls[i].roomId = SettingsDocId
           THEN {SettingsDocId} ELSE {})

\* addDevice: await addDoc(collection(db, deviceCollectionPath), deviceData);
\* deviceData.roomId is the room held by the form, which may have been
\* deleted since it was selected
addDevice(r) ==
    /\ Cardinality(usedDevices) < MaxDevices
    /\ storeDevices' = storeDevices \cup {Device(NextId(usedDevices), r, initialDevice)}
    /\ usedDevices' = usedDevices \cup {NextId(usedDevices)}
    /\ UNCHANGED <<storeRooms, usedRooms, delCalls, pendingDeletes>>
    /\ UNCHANGED <<calcVars, viewVars, settingsVars, formVars, bootVars>>

\* the data passed to updateDevice: fields of a device, roomId included
DeviceUpdates(roomIds) ==
    { [powerW |-> Whole(1500)] }
    \cup { [roomId |-> r, powerW |-> Whole(1500)] : r \in roomIds }

\* updateDevice: await updateDoc(doc(db, deviceCollectionPath, id), data);
\* the fields of data overwrite those of the stored document, and the call
\* is rejected without a write when the document does not exist.  The hook
\* returns the function and App passes it to RoomDeviceManager, where no
\* handler calls it.
updateDevice(id, data) ==
    /\ \E d \in storeDevices : d.id = id /\ d # data @@ d
    /\ storeDevices' = { IF d.id = id THEN data @@ d ELSE d : d \in storeDevices }
    /\ UNCHANGED <<storeRooms, usedRooms, usedDevices, delCalls, pendingDeletes>>
    /\ UNCHANGED <<calcVars, viewVars, settingsVars, formVars, bootVars>>

\* deleteDevice: await deleteDoc(doc(db, deviceCollectionPath, id))
deleteDevice(id) ==
    /\ \E d \in storeDevices : d.id = id
    /\ storeDevices' = { d \in storeDevices : d.id # id }
    /\ UNCHANGED <<storeRooms, usedRooms, usedDevices, delCalls, pendingDeletes>>
    /\ UNCHANGED <<calcVars, viewVars, settingsVars, formVars, bootVars>>

\* deleteRoom(roomId) is invoked by handleDeleteRoom from the card of an
\* element of rooms: deleteDoc of that document is requested
deleteRoomInvoke(r) ==
    /\ Len(delCalls) < MaxDeleteCalls
    /\ delCalls' = Append(delCalls, [roomId |-> r, pc |-> "deleteDoc", docs |-> {}])
    /\ UNCHANGED <<storeRooms, usedRooms, storeDevices, usedDevices, pendingDeletes>>
    /\ UNCHANGED <<calcVars, viewVars, settingsVars, formVars, bootVars>>

\* 1. await deleteDoc(doc(db, roomCollectionPath, roomId)) completes: the
\* document of that id leaves the rooms collection, the settings document
\* when roomId is 'settings', and its listener is notified
deleteRoomDoc(i) ==
    /\ delCalls[i].pc = "deleteDoc"
    /\ storeRooms' = storeRooms \ {delCalls[i].roomId}
    /\ IF delCalls[i].roomId = SettingsDocId /\ settingsDoc.exists
       THEN settingsDoc' = AbsentDoc /\ settingsSeen' = FALSE
       ELSE UNCHANGED <<settingsDoc, settingsSeen>>
    /\ delCalls' = [delCalls EXCEPT ![i].pc = "getDocs"]
    /\ UNCHANGED <<settingsWrites, settingsListening>>
    /\ UNCHANGED <<usedRooms, storeDevices, usedDevices, pendingDeletes>>
    /\ UNCHANGED <<calcVars, viewVars, formVars, bootVars>>

\* where("roomId", "==", roomId) evaluated on the device collection
queryDevices(r) == { d.id : d \in { x \in storeDevices : x.roomId = r } }

\* 2. await getDocs(q) completes; forEach fires deleteDoc(d.ref) for every
\* document of the result without awaiting it, and deleteRoom returns
deleteRoomCascade(i) ==
    /\ delCalls[i].pc = "getDocs"
    /\ delCalls' = [delCalls EXCEPT ![i].pc = "finished",
                                    ![i].docs = queryDevices(delCalls[i].roomId)]
    /\ pendingDeletes' = pendingDeletes \cup queryDevices(delCalls[i].roomId)
    /\ UNCHANGED <<storeRooms, usedRooms, storeDevices, usedDevices>>
    /\ UNCHANGED <<calcVars, viewVars, settingsVars, formVars, bootVars>>

\* one deleteDoc(d.ref) fired by the forEach is applied to the store
applyDelete(id) ==
    /\ id \in pendingDeletes
    /\ storeDevices' = { d \in storeDevices : d.id # id }
    /\ pendingDeletes' = pendingDeletes \ {id}
    /\ UNCHANGED <<storeRooms, usedRooms, usedDevices, delCalls>>
    /\ UNCHANGED <<calcVars, viewVars, settingsVars, formVars, bootVars>>

----------------------------------------------------------------------------
(* SpecAdvise: generateLLMRecommendation applied to the rooms computed by  *)
(* calculateBuildingTotals, against every behaviour of the advisory        *)
(* service                                                                 *)

\* the characters of the decimal digits
DigitChar == <<"0", "1", "2", "3", "4", "5", "6", "7", "8", "9">>

\* the decimal numeral of the natural number k, "" for 0
RECURSIVE DigitsOf(_)
DigitsOf(k) == IF k = 0 THEN "" ELSE DigitsOf(k \div 10) \o DigitChar[(k % 10) + 1]

\* the decimal numeral of the natural number k
NaturalToString(k) == IF k = 0 THEN "0" ELSE DigitsOf(k)

\* the last width digits of the decimal numeral of k, zeros to its left
RECURSIVE PadDigits(_, _)
PadDigits(k, width) ==
    IF width = 0 THEN "" ELSE PadDigits(k \div 10, width - 1) \o DigitChar[(k % 10) + 1]

\* the decimal numeral of the natural number a, "" for 0
RECURSIVE BDigitsOf(_)
BDigitsOf(a) ==
    IF a = <<>> THEN "" ELSE BDigitsOf(BDivSmall(a, 10)) \o DigitChar[BModSmall(a, 10) + 1]

BToString(a) == IF a = <<>> THEN "0" ELSE BDigitsOf(a)

\* the last width digits of the decimal numeral of a, zeros to its left
RECURSIVE BDigitsPadded(_, _)
BDigitsPadded(a, width) ==
    IF width = 0 THEN ""
    ELSE BDigitsPadded(BDivSmall(a, 10), width - 1) \o DigitChar[BModSmall(a, 10) + 1]

\* the natural number nearest to |x| * 10^digits for a finite x, the larger
\* of two equally near ones
toFixedUnits(x, digits) ==
    IF IsZero(x) THEN <<>>
    ELSE IF x.e >= 0 THEN BShl(BMulSmall(x.m, 10^digits), x.e)
    ELSE BShr(BAdd(BMulSmall(x.m, 10^digits), BShl(<<1>>, -(x.e) - 1)), -(x.e))

\* the numeral of n / 10^digits: the digits of n, zeros to their left up to
\* digits + 1 of them, and a point before the last digits of them
pointNumeral(n, digits) ==
    IF digits = 0 THEN BToString(n)
    ELSE BToString(BDivSmall(n, 10^digits)) \o "."
         \o PadDigits(BModSmall(n, 10^digits), digits)

\* Number::toString of the finite x >= 1e21, which is the integer X of D
\* digits.  Its numeral is d.ddde+n, from the least count k of digits for
\* which some s of k digits has s * 10^(D - k) round to x.  Only
\* low = floor(X / 10^(D - k)) and low + 1 can be that s.

\* whether s * 10^p rounds to x
readsBack(x, s, p) == Round(1, BMul(s, BPow10(p)), 0) = x

\* whether low * 10^p is nearer to X than (low + 1) * 10^p, or as near with
\* low even
lowIsNearer(X, low, p) ==
    \/ BCmp(BSub(BShl(X, 1), BShl(BMul(low, BPow10(p)), 1)), BPow10(p)) = -1
    \/ /\ BCmp(BSub(BShl(X, 1), BShl(BMul(low, BPow10(p)), 1)), BPow10(p)) = 0
       /\ BModSmall(low, 2) = 0

\* the numeral of s * 10^p, s of k digits: the first digit, a point and the
\* other digits if there are any, then e+ and the exponent
exponentNumeral(s, k, p) ==
    IF k = 1 THEN BToString(s) \o "e+" \o NaturalToString(p)
    ELSE BToString(BDivPow10(s, k - 1)) \o "."
         \o BDigitsPadded(s, k - 1) \o "e+" \o NaturalToString(p + k - 1)

\* the numeral for the count k of digits if there is one, else for k + 1
RECURSIVE shortestNumeral(_, _, _, _)
shortestFrom(x, X, D, k, low) ==
    IF readsBack(x, low, D - k)
       /\ (~readsBack(x, BAdd(low, <<1>>), D - k) \/ lowIsNearer(X, low, D - k))
    THEN exponentNumeral(low, k, D - k)
    ELSE IF readsBack(x, BAdd(low, <<1>>), D - k)
    THEN (IF BAdd(low, <<1>>) = BPow10(k)
          THEN exponentNumeral(<<1>>, 1, D)
          ELSE exponentNumeral(BAdd(low, <<1>>), k, D - k))
    ELSE shortestNumeral(x, X, D, k + 1)

shortestNumeral(x, X, D, k) == shortestFrom(x, X, D, k, BDivPow10(X, D - k))

numberToString(x) ==
    shortestNumeral(x, BShl(x.m, x.e), BDecimalLen(BShl(x.m, x.e)), 1)

\* the least Number that toFixed spells with an exponent
ExponentFrom == Decimal(1, 21)

\* Number.prototype.toFixed(digits): Number::toString of a NaN or an
\* Infinity; otherwise "-" when x < 0, then Number::toString of |x| when it
\* is 1e21 or more, and else the numeral with that many fraction digits that
\* is closest to |x|
toFixedMagnitude(x, digits) ==
    IF ~Lt(x, ExponentFrom) THEN numberToString(x)
    ELSE pointNumeral(toFixedUnits(x, digits), digits)

toFixed(x, digits) ==
    IF x.nan THEN "NaN"
    ELSE IF x.inf THEN (IF x.s = 1 THEN "Infinity" ELSE "-Infinity")
    ELSE IF Lt(x, Zero) THEN "-" \o toFixedMagnitude(Magnitude(x), digits)
    ELSE toFixedMagnitude(Magnitude(x), digits)

ConvertThreshold == Whole(5)
HybridThreshold == Whole(10)

\* variant: the thresholds themselves still count as below
suggestedActionInclusive(roiYears) ==
    IF ~Gt(roiYears, ConvertThreshold) THEN "Convert to Solar"
    ELSE IF ~Gt(roiYears, HybridThreshold) THEN "Hybrid Model"
    ELSE "Stay on Grid"

\* roiYears < 5.0 ? 'Convert to Solar' : (roiYears < 10.0 ? 'Hybrid Model' : 'Stay on Grid')
suggestedAction(roiYears) ==
    IF Lt(roiYears, ConvertThreshold) THEN "Convert to Solar"
    ELSE IF Lt(roiYears, HybridThreshold) THEN "Hybrid Model"
    ELSE "Stay on Grid"

analysisPayload(roomAnalysis) ==
    [ i \in 1..Len(roomAnalysis) |->
        [ roomName            |-> nameOf(roomAnalysis[i]),
          yearlyCost_INR      |-> toFixed(roomAnalysis[i].metrics.costYearGrid, 0),
          requiredCapacity_KW |-> toFixed(roomAnalysis[i].metrics.requiredCapacityKW, 2),
          roiYears            |-> toFixed(roomAnalysis[i].metrics.roiYears, 1),
          suggestedAction     |-> suggestedAction(roomAnalysis[i].metrics.roiYears) ] ]

FallbackSummary == "AI recommendation service is unavailable. Falling back to rule-based analysis: Rooms with ROI < 5 years are suggested for solar conversion."

ruleBasedSuggestion(roiYears) ==
    IF Lt(roiYears, ConvertThreshold) THEN "Convert to Solar (Rule-Based)"
    ELSE "Stay on Grid (Rule-Based)"

\* the template literal of the reasoning, with the formatted ROI it embeds
ruleBasedReasoning(roiYears) ==
    IF Lt(roiYears, ConvertThreshold)
    THEN "High usage and good ROI of " \o toFixed(roiYears, 1) \o " years."
    ELSE "Low usage or high ROI of " \o toFixed(roiYears, 1) \o " years."

\* a mapping that lists only the rooms suggested for conversion
fallbackRoomsSolarOnly(roomAnalysis) ==
    LET solar == SelectSeq(roomAnalysis, LAMBDA r : Lt(r.metrics.roiYears, ConvertThreshold))
    IN  [ i \in 1..Len(solar) |->
            [ roomName   |-> nameOf(solar[i]),
              suggestion |-> ruleBasedSuggestion(solar[i].metrics.roiYears),
              reasoning  |-> ruleBasedReasoning(solar[i].metrics.roiYears) ] ]

\* roomAnalysis.map(r => ({roomName, suggestion, reasoning})) of the catch block
fallbackRooms(roomAnalysis) ==
    [ i \in 1..Len(roomAnalysis) |->
        [ roomName   |-> nameOf(roomAnalysis[i]),
          suggestion |-> ruleBasedSuggestion(roomAnalysis[i].metrics.roiYears),
          reasoning  |-> ruleBasedReasoning(roomAnalysis[i].metrics.roiYears) ] ]

\* the object returned by the catch block
ruleBasedFallback(roomAnalysis) ==
    [ summary             |-> FallbackSummary,
      totalSavings        |-> Whole(0),
      breakevenPeriod     |-> Whole(0),
      capacityNeeded      |-> Whole(0),
      roomRecommendations |-> fallbackRooms(roomAnalysis) ]

\* candidate texts the service may answer with
TextLab == "{\"summary\":\"Convert the lab.\",\"totalSavings\":1000,\"breakevenPeriod\":4,\"capacityNeeded\":1,\"roomRecommendations\":[{\"roomName\":\"Lab\",\"suggestion\":\"Convert to Solar\",\"reasoning\":\"ROI below 5 years.\"}]}"
TextLabHall == "{\"summary\":\"Convert both rooms.\",\"totalSavings\":2000,\"breakevenPeriod\":4,\"capacityNeeded\":2,\"roomRecommendations\":[{\"roomName\":\"Lab\",\"suggestion\":\"Convert to Solar\",\"reasoning\":\"ROI below 5 years.\"},{\"roomName\":\"Hall\",\"suggestion\":\"Convert to Solar\",\"reasoning\":\"ROI below 5 years.\"}]}"
TextNoRooms == "{\"summary\":\"Nothing to do.\",\"totalSavings\":0,\"breakevenPeriod\":0,\"capacityNeeded\":0,\"roomRecommendations\":[]}"
TextNoRecommendations == "{\"summary\":\"Convert everything.\",\"totalSavings\":1000,\"breakevenPeriod\":4,\"capacityNeeded\":1}"
TextNoCapacity == "{\"summary\":\"Convert the lab.\",\"totalSavings\":1000,\"breakevenPeriod\":4,\"roomRecommendations\":[{\"roomName\":\"Lab\",\"suggestion\":\"Convert to Solar\",\"reasoning\":\"ROI below 5 years.\"}]}"
TextNull == "null"
TextProse == "Sure! Here is the analysis you asked for."
TextTruncated == "{\"summary\":\"Convert the lab.\",\"totalSavings\":"
TextEmpty == ""

LabRecommendation == [roomName |-> "Lab", suggestion |-> "Convert to Solar", reasoning |-> "ROI below 5 years."]
HallRecommendation == [roomName |-> "Hall", suggestion |-> "Convert to Solar", reasoning |-> "ROI below 5 years."]

\* JSON.parse on the candidate texts: the value of every text that is JSON;
\* a text outside the domain makes JSON.parse throw a SyntaxError
JSONparse ==
    (TextLab :> [ summary |-> "Convert the lab.", totalSavings |-> Whole(1000),
                  breakevenPeriod |-> Whole(4), capacityNeeded |-> Whole(1),
                  roomRecommendations |-> <<LabRecommendation>> ])
    @@ (TextLabHall :> [ summary |-> "Convert both rooms.", totalSavings |-> Whole(2000),
                         breakevenPeriod |-> Whole(4), capacityNeeded |-> Whole(2),
                         roomRecommendations |-> <<LabRecommendation, HallRecommendation>> ])
    @@ (TextNoRooms :> [ summary |-> "Nothing to do.", totalSavings |-> Whole(0),
                         breakevenPeriod |-> Whole(0), capacityNeeded |-> Whole(0),
                         roomRecommendations |-> <<>> ])
    @@ (TextNoRecommendations :> [ summary |-> "Convert everything.", totalSavings |-> Whole(1000),
                                   breakevenPeriod |-> Whole(4), capacityNeeded |-> Whole(1) ])
    @@ (TextNoCapacity :> [ summary |-> "Convert the lab.", totalSavings |-> Whole(1000),
                            breakevenPeriod |-> Whole(4),
                            roomRecommendations |-> <<LabRecommendation>> ])
    @@ (TextNull :> Null)

CandidateTexts ==
    { TextLab, TextLabHall, TextNoRooms, TextNoRecommendations, TextNoCapacity,
      TextNull, TextProse, TextTruncated, TextEmpty }

\* what the service does with one request: fetch rejects; the body is not
\* JSON (response.json() rejects); the body is JSON without
\* candidates[0].content.parts[0].text; the body carries a candidate text
AdvisoryOutcomes ==
    { [fetch |-> "rejects", body |-> "", text |-> ""],
      [fetch |-> "resolves", body |-> "notJSON", text |-> ""],
      [fetch |-> "resolves", body |-> "noCandidate", text |-> ""] }
    \cup { [fetch |-> "resolves", body |-> "candidate", text |-> x] : x \in CandidateTexts }

\* the try block throws: fetch or response.json() rejects, jsonText is
\* falsy (undefined or the empty string), or JSON.parse throws
tryThrows(outcome) ==
    \/ outcome.fetch = "rejects"
    \/ outcome.body # "candidate"
    \/ outcome.text = TextEmpty
    \/ outcome.text \notin DOMAIN JSONparse

generateLLMRecommendation(roomAnalysis, outcome) ==
    IF tryThrows(outcome)
    THEN ruleBasedFallback(roomAnalysis)
    ELSE JSONparse[outcome.text]

\* the settings of SpecAdvise: room ROI below 5, exactly 5, between 5 and
\* 10, exactly 10, above 10, 0 (no sunlight), and 5 in the reals but
\* rounded to either side of it
AdviseSettings ==
    { SettingsWith(1, Num(5, 100)),
      [SettingsWith(1, Num(5, 100)) EXCEPT !.solarCostPerKW = Num(328725, 4)],
      [SettingsWith(1, Num(5, 100)) EXCEPT !.solarCostPerKW = Whole(100000)],
      [SettingsWith(1, Num(5, 100)) EXCEPT !.solarCostPerKW = Num(328725, 2)],
      [SettingsWith(1, Num(5, 100)) EXCEPT !.solarCostPerKW = Whole(200000)],
      [SettingsWith(1, Num(5, 100)) EXCEPT !.sunlightHours = Whole(0)],
      [SettingsWith(1, Num(5, 100)) EXCEPT !.efficiencyFactor = Whole(0)],
      ThresholdSettings }

\* Array.prototype.sort((a, b) => b.metrics.costYearGrid - a.metrics.costYearGrid)
\* as the engine runs it on an array of fewer than 64 elements: the run at
\* the start of the array is found and reversed if it descends, and every
\* later element is put in its place by binary insertion.

\* order < 0 for order = comparefn(x, y); a comparator result of NaN counts
\* as 0
comparesBelow(x, y) == Lt(Sub(y.metrics.costYearGrid, x.metrics.costYearGrid), Zero)

\* the last index of the run that a[1], a[2] start, idx being the next
\* index to look at: a descending run ends before an order >= 0, any other
\* run before an order < 0
RECURSIVE runEnd(_, _, _)
runEnd(a, idx, isDescending) ==
    IF idx > Len(a) THEN idx - 1
    ELSE IF isDescending # comparesBelow(a[idx], a[idx - 1]) THEN idx - 1
    ELSE runEnd(a, idx + 1, isDescending)

\* the run length CountAndMakeRun returns
countRun(a) == runEnd(a, 3, comparesBelow(a[2], a[1]))

reverseRange(a, n) == [ i \in 1..n |-> a[n + 1 - i] ] \o SubSeq(a, n + 1, Len(a))

\* the array after CountAndMakeRun
makeRun(a) == IF comparesBelow(a[2], a[1]) THEN reverseRange(a, countRun(a)) ELSE a

\* the index the pivot goes to, found by halving [left, right)
RECURSIVE insertionPoint(_, _, _, _)
insertionPoint(a, pivot, left, right) ==
    IF left >= right THEN left
    ELSE IF comparesBelow(pivot, a[left + ((right - left) \div 2)])
    THEN insertionPoint(a, pivot, left, left + ((right - left) \div 2))
    ELSE insertionPoint(a, pivot, left + ((right - left) \div 2) + 1, right)

\* a[start] moved to index left, the elements between shifted up by one
moveTo(a, start, left) ==
    SubSeq(a, 1, left - 1) \o <<a[start]>> \o SubSeq(a, left, start - 1)
    \o SubSeq(a, start + 1, Len(a))

\* BinaryInsertionSort from index start on, a[1..start-1] being sorted
RECURSIVE binaryInsertionSort(_, _)
binaryInsertionSort(a, start) ==
    IF start > Len(a) THEN a
    ELSE binaryInsertionSort(moveTo(a, start, insertionPoint(a, a[start], 1, start)),
                             start + 1)

sortByCostDesc(list) ==
    IF Len(list) < 2 THEN list
    ELSE binaryInsertionSort(makeRun(list), countRun(list) + 1)

\* the device lists and settings with numbers near the limits of the
\* doubles that SpecAdvise starts from
AdviseExtremeDeviceLists ==
    { <<Device(1, 1, UnusedHugeKind)>>,
      <<Device(1, 1, FaintKind)>>,
      <<Device(1, 1, HugeKind)>>,
      <<Device(1, 1, HugeKind), Device(2, 2, initialDevice)>> }

AdviseExtremeSettings ==
    { SettingsWith(1, Num(5, 100)),
      [SettingsWith(1, Num(5, 100)) EXCEPT !.electricityRate = Decimal(1, -10)],
      [SettingsWith(1, Num(5, 100)) EXCEPT !.sunlightHours = Whole(0)],
      [SettingsWith(1, Num(5, 100)) EXCEPT !.sunlightHours = Whole(0),
                                           !.electricityRate = Decimal(1, -200)] }

\* generateLLMRecommendation(roomsWithMetrics, buildingMetrics) up to its
\* first await: analysisPayload is built from roomAnalysis, which is the
\* rooms array of the computed result, and the request is handed to fetch
AdviseCall ==
    /\ calcDone
    /\ advOutcome = IdleOutcome
    /\ advRequest' = analysisPayload(calcResult.rooms)
    /\ advOutcome' = FetchPending
    /\ UNCHANGED <<advDone, advResult>>
    /\ UNCHANGED <<calcRooms, calcDevices, calcSettings, calcDone, calcResult>>
    /\ UNCHANGED <<metricDevice, metricRate, metricDone, metricResult>>
    /\ UNCHANGED <<storeVars, viewVars, settingsVars, formVars, bootVars>>

\* await fetch(...) settles.  A rejection is caught: the catch block maps
\* roomAnalysis as the array is at that time.
FetchSettles(fate) ==
    /\ advOutcome = FetchPending
    /\ IF fate = "rejects"
       THEN /\ advOutcome' = [fetch |-> "rejects", body |-> "", text |-> ""]
            /\ advDone' = TRUE
            /\ advResult' = ruleBasedFallback(calcResult.rooms)
       ELSE /\ advOutcome' = BodyPending
            /\ UNCHANGED <<advDone, advResult>>
    /\ UNCHANGED <<advRequest, calcRooms, calcDevices, calcSettings, calcDone, calcResult>>
    /\ UNCHANGED <<metricDevice, metricRate, metricDone, metricResult>>
    /\ UNCHANGED <<storeVars, viewVars, settingsVars, formVars, bootVars>>

\* await response.json() settles, and the function runs to its return: the
\* parsed candidate text, or the catch block over roomAnalysis as the array
\* is at that time
BodySettles(outcome) ==
    /\ advOutcome = BodyPending
    /\ outcome.fetch = "resolves"
    /\ advOutcome' = outcome
    /\ advDone' = TRUE
    /\ advResult' = generateLLMRecommendation(calcResult.rooms, outcome)
    /\ UNCHANGED <<advRequest, calcRooms, calcDevices, calcSettings, calcDone, calcResult>>
    /\ UNCHANGED <<metricDevice, metricRate, metricDone, metricResult>>
    /\ UNCHANGED <<storeVars, viewVars, settingsVars, formVars, bootVars>>

\* the Dashboard is rendered: roomsWithMetrics.sort(...) sorts, in place, the
\* array that the memo of App holds and that a running call has as its
\* roomAnalysis
DashboardRenders ==
    /\ calcDone
    /\ calcResult.rooms # sortByCostDesc(calcResult.rooms)
    /\ calcResult' = [calcResult EXCEPT !.rooms = sortByCostDesc(@)]
    /\ UNCHANGED <<calcRooms, calcDevices, calcSettings, calcDone>>
    /\ UNCHANGED <<advRequest, advOutcome, advDone, advResult>>
    /\ UNCHANGED <<metricDevice, metricRate, metricDone, metricResult>>
    /\ UNCHANGED <<storeVars, viewVars, settingsVars, formVars, bootVars>>

InitAdvise ==
    /\ calcRooms \in RoomLists
    /\ \/ /\ calcDevices \in DeviceLists
          /\ calcSettings \in AdviseSettings
       \/ /\ calcDevices \in AdviseExtremeDeviceLists
          /\ calcSettings \in AdviseExtremeSettings
    /\ calcDone = FALSE
    /\ calcResult = NoResult
    /\ AdviseIdle
    /\ MetricIdle
    /\ StoreIdle
    /\ SettingsIdle
    /\ FormIdle
    /\ BootDone
    /\ ViewIdle

FetchFates == {"rejects", "resolves"}

NextAdvise ==
    \/ Calculate
    \/ AdviseCall
    \/ \E fate \in FetchFates : FetchSettles(fate)
    \/ \E outcome \in AdvisoryOutcomes : BodySettles(outcome)
    \/ DashboardRenders

SpecAdvise == InitAdvise /\ [][NextAdvise]_vars

----------------------------------------------------------------------------
(* Claims about generateLLMRecommendation, checked under SpecAdvise *)

\* roomAnalysis, the array the call was given, as it is now
AdvisedRooms == calcResult.rooms

RuleBasedSuggestions == {"Convert to Solar (Rule-Based)", "Stay on Grid (Rule-Based)"}

RecommendationFields ==
    {"summary", "totalSavings", "breakevenPeriod", "capacityNeeded", "roomRecommendations"}

\* the advisory call failed in one of the four ways
AdvisoryFailed(outcome) ==
    \/ outcome.fetch = "rejects"
    \/ outcome.fetch = "resolves" /\ outcome.body = "notJSON"
    \/ outcome.fetch = "resolves" /\ outcome.body = "noCandidate"
    \/ outcome.fetch = "resolves" /\ outcome.body = "candidate"
         /\ outcome.text \in {TextEmpty, TextProse, TextTruncated}

\* the positions of the entries for the room of that name
EntriesFor(entries, name) == { j \in 1..Len(entries) : entries[j].roomName = name }

\* the entry for the room of that name
EntryFor(entries, name) == entries[CHOOSE j \in EntriesFor(entries, name) : TRUE]

\* one entry per room, whatever their order
OneEntryPerRoom(entries, roomAnalysis) ==
    /\ Len(entries) = Len(roomAnalysis)
    /\ \A i \in 1..Len(roomAnalysis) :
          Cardinality(EntriesFor(entries, nameOf(roomAnalysis[i]))) = 1

\* C1: whenever the advisory call fails (fetch rejects, the body is not
\* JSON, the candidate text is missing, or it does not parse), the call
\* resolves to a recommendation whose roomRecommendations has exactly one
\* entry per input room, each with one of the two rule-based suggestions.
C1_FailureYieldsRuleBased ==
    (advDone /\ AdvisoryFailed(advOutcome))
    => /\ "roomRecommendations" \in DOMAIN advResult
       /\ OneEntryPerRoom(advResult.roomRecommendations, AdvisedRooms)
       /\ \A j \in 1..Len(advResult.roomRecommendations) :
            advResult.roomRecommendations[j].suggestion \in RuleBasedSuggestions

\* a call for the rooms Lab and Hall, in this order in its request, whose
\* array the Dashboard sorted before fetch rejected: the fallback lists
\* Hall, then Lab, with the two different rule-based suggestions
C1_Witness ==
    /\ advDone
    /\ advOutcome.fetch = "rejects"
    /\ Len(advRequest) = 2
    /\ advRequest[1].roomName = "Lab" /\ advRequest[2].roomName = "Hall"
    /\ "roomRecommendations" \in DOMAIN advResult
    /\ Len(advResult.roomRecommendations) = 2
    /\ advResult.roomRecommendations[1].roomName = "Hall"
    /\ advResult.roomRecommendations[1].suggestion = "Convert to Solar (Rule-Based)"
    /\ advResult.roomRecommendations[2].roomName = "Lab"
    /\ advResult.roomRecommendations[2].suggestion = "Stay on Grid (Rule-Based)"

\* the value has the contracted shape for the rooms: all five fields and
\* one recommendation per supplied room
MatchesShape(value, roomAnalysis) ==
    /\ DOMAIN value = RecommendationFields
    /\ OneEntryPerRoom(value.roomRecommendations, roomAnalysis)

\* the value is the rule-based fallback result for the rooms
IsRuleBased(value, roomAnalysis) ==
    /\ DOMAIN value = RecommendationFields
    /\ value.summary = FallbackSummary
    /\ IsZero(value.totalSavings)
    /\ IsZero(value.breakevenPeriod)
    /\ IsZero(value.capacityNeeded)
    /\ OneEntryPerRoom(value.roomRecommendations, roomAnalysis)
    /\ \A i \in 1..Len(roomAnalysis) :
         EntryFor(value.roomRecommendations, nameOf(roomAnalysis[i])).suggestion
           = ruleBasedSuggestion(roomAnalysis[i].metrics.roiYears)

\* C3: every call resolves either to a value of the full contracted shape
\* for the supplied rooms or to the rule-based fallback result; a response
\* deviating from the shape is never returned to the caller.
C3_DeviationFallsBack ==
    advDone => \/ MatchesShape(advResult, AdvisedRooms)
               \/ IsRuleBased(advResult, AdvisedRooms)

\* the payload has one entry per room, tagged by the tier of its roiYears
PayloadTiersOf(analysed, payload) ==
    /\ OneEntryPerRoom(payload, analysed)
    /\ \A i \in 1..Len(analysed) :
         /\ EntryFor(payload, nameOf(analysed[i])).suggestedAction = "Convert to Solar"
              <=> Lt(analysed[i].metrics.roiYears, Whole(5))
         /\ EntryFor(payload, nameOf(analysed[i])).suggestedAction = "Hybrid Model"
              <=> /\ ~Lt(analysed[i].metrics.roiYears, Whole(5))
                  /\ Lt(analysed[i].metrics.roiYears, Whole(10))
         /\ EntryFor(payload, nameOf(analysed[i])).suggestedAction = "Stay on Grid"
              <=> ~Lt(analysed[i].metrics.roiYears, Whole(10))

\* the call has built its payload
RequestBuilt == advOutcome # IdleOutcome

\* C14: in the payload built for the advisory service, each room's
\* suggestedAction is "Convert to Solar" exactly when its roiYears < 5,
\* "Hybrid Model" exactly when 5 <= roiYears < 10 and "Stay on Grid"
\* otherwise (including the clamped value 999), and the payload has one
\* entry per input room.
C14_PayloadTiers == RequestBuilt => PayloadTiersOf(AdvisedRooms, advRequest)

\* a payload of two rooms: one with an ROI of exactly 5 years, tagged
\* "Hybrid Model", and one without devices (ROI 999), tagged "Stay on Grid"
C14_Witness ==
    /\ RequestBuilt
    /\ Len(advRequest) = 2
    /\ AdvisedRooms[1].metrics.roiYears = Whole(5)
    /\ advRequest[1].roomName = AdvisedRooms[1].name
    /\ advRequest[1].suggestedAction = "Hybrid Model"
    /\ AdvisedRooms[2].metrics.roiYears = RoiLimit
    /\ advRequest[2].roomName = AdvisedRooms[2].name
    /\ advRequest[2].suggestedAction = "Stay on Grid"

\* a room with consumption costs nothing to convert, has ROI 0 and is
\* tagged for conversion in the payload and, when the call falls back, in
\* the rule-based recommendations
FreeConversionOf(analysed, payload, failed, result) ==
    \A i \in 1..Len(analysed) :
        Gt(analysed[i].metrics.energyKWhDay, Whole(0))
        => /\ IsZero(analysed[i].metrics.installationCost)
           /\ IsZero(analysed[i].metrics.roiYears)
           /\ EntryFor(payload, nameOf(analysed[i])).suggestedAction = "Convert to Solar"
           /\ failed => EntryFor(result.roomRecommendations, nameOf(analysed[i])).suggestion
                           = "Convert to Solar (Rule-Based)"

\* C28: with sunlightHours = 0 or efficiencyFactor = 0 and a positive
\* electricityRate, a room with positive consumption has installationCost 0
\* and roiYears 0, its suggested action in the advisory payload is
\* "Convert to Solar" and its fallback suggestion is
\* "Convert to Solar (Rule-Based)".
C28_NoGenerationConverts ==
    ( /\ advDone
      /\ IsZero(calcSettings.sunlightHours) \/ IsZero(calcSettings.efficiencyFactor)
      /\ Gt(calcSettings.electricityRate, Whole(0)) )
    => FreeConversionOf(AdvisedRooms, advRequest, AdvisoryFailed(advOutcome), advResult)

\* a room whose yearly grid cost is positive costs nothing to convert, has
\* ROI 0 and is tagged for conversion; a room whose yearly grid cost is 0
\* has ROI 999 and is tagged to stay on the grid
PricedConversionOf(analysed, payload, failed, result) ==
    \A i \in 1..Len(analysed) :
        /\ IsZero(analysed[i].metrics.installationCost)
        /\ Gt(analysed[i].metrics.costYearGrid, Whole(0))
           => /\ IsZero(analysed[i].metrics.roiYears)
              /\ EntryFor(payload, nameOf(analysed[i])).suggestedAction = "Convert to Solar"
              /\ failed => EntryFor(result.roomRecommendations, nameOf(analysed[i])).suggestion
                              = "Convert to Solar (Rule-Based)"
        /\ IsZero(analysed[i].metrics.costYearGrid)
           => /\ analysed[i].metrics.roiYears = RoiLimit
              /\ EntryFor(payload, nameOf(analysed[i])).suggestedAction = "Stay on Grid"
              /\ failed => EntryFor(result.roomRecommendations, nameOf(analysed[i])).suggestion
                              = "Stay on Grid (Rule-Based)"

\* C28, as it holds: with sunlightHours = 0 or efficiencyFactor = 0 every
\* room's installationCost is 0; a room whose costYearGrid is greater than 0
\* has roiYears 0, the suggested action "Convert to Solar" and the fallback
\* suggestion "Convert to Solar (Rule-Based)"; a room whose costYearGrid is
\* 0, which a positive consumption at a positive electricityRate has when
\* their product underflows, has roiYears 999 and is told to stay on the
\* grid.
C28_ConvertsWherePriced ==
    ( /\ advDone
      /\ IsZero(calcSettings.sunlightHours) \/ IsZero(calcSettings.efficiencyFactor) )
    => PricedConversionOf(AdvisedRooms, advRequest, AdvisoryFailed(advOutcome), advResult)

\* without sunlight, a failed call for two rooms of which the first has a
\* positive yearly cost: it is tagged for conversion in payload and fallback
C28_Witness ==
    /\ advDone
    /\ IsZero(calcSettings.sunlightHours)
    /\ AdvisoryFailed(advOutcome)
    /\ Len(advRequest) = 2
    /\ Gt(AdvisedRooms[1].metrics.costYearGrid, Whole(0))
    /\ advRequest[1].roomName = AdvisedRooms[1].name
    /\ advRequest[1].suggestedAction = "Convert to Solar"
    /\ advResult.roomRecommendations[1].roomName = AdvisedRooms[1].name
    /\ advResult.roomRecommendations[1].suggestion = "Convert to Solar (Rule-Based)"
    /\ advResult.roomRecommendations[2].suggestion = "Stay on Grid (Rule-Based)"

----------------------------------------------------------------------------
(* Spec: App with its views.  The storage subscriptions deliver snapshots  *)
(* of rooms, devices and settings; App recomputes roomsWithMetrics; the    *)
(* RecommendationsView keeps recommendations, isLoading and error while it *)
(* is mounted.                                                             *)

Views == {"dashboard", "rooms", "solar", "recommendations"}

\* the settings document as the rooms listener maps it,
\* { id: 'settings', ...doc.data() }: the fields of the settings and no name
settingsDocAsRoom(doc) == [id |-> SettingsDocId] @@ doc.data

\* whether the document id of the room sorts before 'settings'.  addDoc
\* hands out random ids, of which some do and some do not; here the id of
\* room 1 does and the ids of the other rooms do not
sortsBeforeSettings(room) == room.id = 1

\* snapshot.docs.map(doc => ({ id: doc.id, ...doc.data() })) over the
\* documents of the rooms collection, which a query without orderBy
\* returns in the order of their ids: the rooms the user created (created
\* lists them in that order) and, once it exists, the settings document
\* doc(db, roomCollectionPath, 'settings') at the place of its id
roomListOf(created, doc) ==
    IF doc.exists
    THEN SelectSeq(created, sortsBeforeSettings)
         \o <<settingsDocAsRoom(doc)>>
         \o SelectSeq(created, LAMBDA room : ~sortsBeforeSettings(room))
    ELSE created

\* the settings document of a user who has opened the app before
StoredDefaults == [exists |-> TRUE, data |-> initialSolarSettings]

\* the settings document at the start of a session, none for a new user;
\* the listener has not delivered it yet
SettingsStart ==
    /\ settingsDoc \in {AbsentDoc, StoredDefaults}
    /\ settingsWrites = <<>>
    /\ settingsSeen = FALSE
    /\ settingsListening = TRUE

\* the rooms a user has created, as the store holds them at a snapshot; with
\* the settings document the lists delivered are [settings], [Lab, settings]
\* and [Lab, settings, Hall]
ViewRoomLists == { <<>>, <<Room(1)>>, <<Room(1), Room(2)>> }
\* the snapshots the devices subscription delivers
ViewDeviceLists == { <<>>, <<Device(1, 2, initialDevice)>> }
\* the record handleSave of SolarComparisonView passes to
\* updateSolarSettings: all six fields, the installation cost edited
ViewUpserts == { [initialSolarSettings EXCEPT !.solarCostPerKW = Whole(100000)] }

\* what the advisory service does with a request of the view
ViewOutcomes ==
    { [fetch |-> "rejects", body |-> "", text |-> ""],
      [fetch |-> "resolves", body |-> "candidate", text |-> TextLabHall],
      [fetch |-> "resolves", body |-> "candidate", text |-> TextNull] }

GuardMessage == "Please add rooms and devices to generate recommendations."

\* renderView: the Dashboard, when it is rendered, sorts the roomsWithMetrics
\* array it was given in place; the spinner and the other views leave it alone
renderView(v, loading, rwm) ==
    IF v = "dashboard" /\ ~loading THEN sortByCostDesc(rwm) ELSE rwm

\* the RecommendationsView is mounted
Mounted == view = "recommendations" /\ ~isDataLoading

\* RoomDeviceManager is rendered for view v and loading flag loading
managerRendered(v, loading) == v = "rooms" /\ ~loading

\* newDeviceState after App has rendered view v with the room list rs.
\* RoomDeviceManager, when it mounts, starts from
\* useState({ ...initialDevice, roomId: rooms[0]?.id || '' }); while it stays
\* mounted its effect selects rooms[0] if no room is selected; when it is
\* not rendered there is no form state
formAfterRender(v, loading, rs) ==
    IF ~managerRendered(v, loading) THEN formReset(NoRoom)
    ELSE IF ~managerRendered(view, isDataLoading)
    THEN formReset(IF Len(rs) > 0 THEN rs[1].id ELSE NoRoom)
    ELSE IF Len(rs) > 0 /\ newDeviceState.roomId = NoRoom
    THEN [newDeviceState EXCEPT !.roomId = rs[1].id]
    ELSE newDeviceState

\* isAddingDevice after App has rendered view v: useState(false) when
\* RoomDeviceManager mounts, kept while it stays mounted
addingAfterRender(v, loading) ==
    managerRendered(v, loading) /\ managerRendered(view, isDataLoading) /\ isAddingDevice

\* the handleAddDevice calls of a RoomDeviceManager that is unmounted: they
\* go on, and their state updates will be dropped
unmountedAdds(adds) == [ i \in 1..Len(adds) |-> [adds[i] EXCEPT !.live = FALSE] ]

\* the condition of the view's useEffect
effectStarts(recs, rwm, totalEnergyKWhDay) ==
    recs = Null /\ Len(rwm) > 0 /\ Gt(totalEnergyKWhDay, Whole(0))

\* generateRecommendations past its guard: setIsLoading(true),
\* setError(null) and the advisory request is sent; by records what called it
startCall(rwm, by) ==
    /\ Len(inflight) + detached < MaxCalls
    /\ inflight' = Append(inflight, [roomAnalysis |-> rwm, by |-> by])
    /\ isLoading' = TRUE
    /\ error' = NoError

\* the useEffect of a mounted RecommendationsView.  Its dependency is
\* generateRecommendations, a new function whenever roomsWithMetrics or
\* buildingMetrics is a new object, so it runs at the mount and after every
\* recomputation of the memo
runEffect(rwm, totalEnergyKWhDay, by) ==
    IF effectStarts(recommendations, rwm, totalEnergyKWhDay)
    THEN startCall(rwm, by)
    ELSE UNCHANGED <<inflight, isLoading, error>>

\* the views are rendered with a result that useMemo has just computed
rerenderWith(v, loading, result) ==
    /\ roomsWithMetrics' = renderView(v, loading, result.rooms)
    /\ buildingMetrics' = result.building
    /\ IF v = "recommendations" /\ ~loading
       THEN runEffect(result.rooms, result.building.totalEnergyKWhDay,
                      IF Mounted THEN "change" ELSE "mount")
       ELSE UNCHANGED <<inflight, isLoading, error>>

\* variant: setDoc without merge replaces the document
setDocReplace(stored, data) == data

\* setDoc(ref, data, { merge: true }): the fields of data overwrite the
\* stored ones, the other stored fields stay
setDocMerge(stored, data) == data @@ stored

\* { ...initialSolarSettings, ...docSnap.data() }
withDefaults(data) == data @@ initialSolarSettings

\* the object the listener passes to setSolarSettings for a document
settingsSetFor(doc) ==
    IF doc.exists THEN withDefaults(doc.data) ELSE initialSolarSettings

\* the documents a session may find: none, or one written by an earlier
\* session that knew only the tariff
SettingsDocs ==
    { AbsentDoc,
      [exists |-> TRUE, data |-> [electricityRate |-> Whole(12)]] }

\* the data passed to updateSolarSettings: partial and full records
SettingsUpserts ==
    { [electricityRate |-> Whole(10)],
      [sunlightHours |-> Whole(6), efficiencyFactor |-> Num(4, 5)],
      [solarCostPerKW |-> Whole(100000)],
      [initialSolarSettings EXCEPT !.lifetimeYears = Whole(20)] }

\* the settings documents that the snapshots above can lead to
ViewSettingsDocs ==
    {AbsentDoc, StoredDefaults} \cup { [exists |-> TRUE, data |-> data] : data \in ViewUpserts }

\* the documents of the rooms the user created, in document-id order
createdRooms(roomIds) ==
    SelectSeq([i \in 1..MaxRooms |-> Room(i)], LAMBDA r : r.id \in roomIds)

\* the upsert of the tariff alone
TariffUpserts == { [electricityRate |-> Whole(10)] }

\* the settings documents that a set of documents becomes under the writes
RECURSIVE docsUnder(_, _)
docsUnder(docs, writes) ==
    IF \A doc \in docs : \A data \in writes :
         [exists |-> TRUE, data |-> setDocMerge(doc.data, data)] \in docs
    THEN docs
    ELSE docsUnder(docs \cup { [exists |-> TRUE, data |-> setDocMerge(doc.data, data)] :
                                 doc \in docs, data \in writes }, writes)

\* the inputs that useMemo sees: those of the snapshots above, the empty
\* lists with the settings of SpecSettings, and the rooms collection of
\* SpecCollection without devices
MemoInputs ==
    ( { roomListOf(created, doc) : created \in ViewRoomLists, doc \in ViewSettingsDocs }
      \X ViewDeviceLists
      \X { settingsSetFor(doc) : doc \in ViewSettingsDocs } )
    \cup ( {<<>>} \X {<<>>}
           \X { settingsSetFor(doc) :
                  doc \in docsUnder(SettingsDocs, SettingsUpserts \cup {initialSolarSettings}) } )
    \cup ( { roomListOf(createdRooms(roomIds), doc) :
               roomIds \in SUBSET RoomIdPool,
               doc \in docsUnder(SettingsDocs, TariffUpserts \cup {initialSolarSettings}) }
           \X {<<>>}
           \X { settingsSetFor(doc) :
                  doc \in docsUnder(SettingsDocs, TariffUpserts \cup {initialSolarSettings}) } )

\* calculateBuildingTotals on each of these inputs, computed once
memoTable ==
    [ input \in MemoInputs |->
        calculateBuildingTotals(input[1], input[2], input[3]) ] @@ <<>>

\* useMemo(() => calculateBuildingTotals(rooms, devices, solarSettings), ...):
\* the value of calculateBuildingTotals on the inputs, read from the table;
\* on an input that the table lacks the evaluation stops with an error
memoTotals(rs, devs, s) == memoTable[<<rs, devs, s>>]

\* a listener has set rooms, devices or solarSettings to a new object:
\* useMemo recomputes calculateBuildingTotals and the views are rendered
rerender(v, loading, rs, devs, s) ==
    rerenderWith(v, loading, memoTotals(rs, devs, s))

\* setView(v) from the navigation bar
Navigate(v) ==
    /\ v # view
    /\ view' = v
    /\ roomsWithMetrics' = renderView(v, isDataLoading, roomsWithMetrics)
    /\ newDeviceState' = formAfterRender(v, isDataLoading, rooms)
    /\ isAddingDevice' = addingAfterRender(v, isDataLoading)
    /\ pendingAdds' = IF managerRendered(view, isDataLoading)
                      THEN unmountedAdds(pendingAdds)
                      ELSE pendingAdds
    /\ responded' = NoResponse
    /\ IF Mounted
       THEN \* the view unmounts: its state is dropped, its requests go on
            /\ recommendations' = Null
            /\ isLoading' = FALSE
            /\ error' = NoError
            /\ inflight' = <<>>
            /\ detached' = detached + Len(inflight)
       ELSE IF v = "recommendations" /\ ~isDataLoading
       THEN \* the view mounts with fresh state and its effect runs
            /\ runEffect(roomsWithMetrics, buildingMetrics.totalEnergyKWhDay, "mount")
            /\ UNCHANGED <<recommendations, detached>>
       ELSE UNCHANGED <<recommendations, isLoading, error, inflight, detached>>
    /\ UNCHANGED <<isDataLoading, rooms, devices, solarSettings, settingsAreInitial, buildingMetrics>>
    /\ UNCHANGED <<calcVars, storeVars, settingsVars, bootVars>>

\* onSnapshot(qRooms): setRooms(roomList), roomList being mapped from every
\* document of the collection; the callback sets a new array whatever the
\* snapshot holds
RoomsSnapshot(created) ==
    /\ subscribed
    /\ rooms' = roomListOf(created, settingsDoc)
    /\ rerender(view, isDataLoading, roomListOf(created, settingsDoc), devices, solarSettings)
    /\ newDeviceState' = formAfterRender(view, isDataLoading, roomListOf(created, settingsDoc))
    /\ isAddingDevice' = addingAfterRender(view, isDataLoading)
    /\ responded' = NoResponse
    /\ UNCHANGED <<view, isDataLoading, devices, solarSettings, settingsAreInitial, recommendations, detached>>
    /\ UNCHANGED pendingAdds
    /\ UNCHANGED <<calcVars, storeVars, settingsVars, bootVars>>

\* onSnapshot(qDevices): setDevices(deviceList), a new array at every
\* snapshot
DevicesSnapshot(deviceList) ==
    /\ subscribed
    /\ devices' = deviceList
    /\ rerender(view, isDataLoading, rooms, deviceList, solarSettings)
    /\ responded' = NoResponse
    /\ UNCHANGED <<view, isDataLoading, rooms, solarSettings, settingsAreInitial, recommendations, detached>>
    /\ UNCHANGED <<calcVars, storeVars, settingsVars, formVars, bootVars>>

\* setIsLoading(false) is the only state change of a listener callback:
\* App renders the view in place of the spinner, from the metrics the memo
\* holds, its dependencies being the same objects
spinnerEnds ==
    /\ roomsWithMetrics' = renderView(view, FALSE, roomsWithMetrics)
    /\ newDeviceState' = formAfterRender(view, FALSE, rooms)
    /\ isAddingDevice' = addingAfterRender(view, FALSE)
    /\ IF view = "recommendations"
       THEN runEffect(roomsWithMetrics, buildingMetrics.totalEnergyKWhDay, "mount")
       ELSE UNCHANGED <<inflight, isLoading, error>>

\* the callback of onSnapshot(settingsRef), called once the listener is
\* attached and after every change of the document: setSolarSettings, for
\* a missing document also setDoc(settingsRef, initialSolarSettings,
\* { merge: true }), which is not awaited, and setIsLoading(false).  For
\* an existing document setSolarSettings gets a new object, so the memo is
\* recomputed.  For a missing one it gets the constant initialSolarSettings:
\* if that is the state already, the memo is kept, and if the spinner is
\* not showing either, no state changes and nothing is rendered
SettingsRead ==
    /\ subscribed
    /\ settingsListening
    /\ ~settingsSeen
    /\ IF settingsDoc.exists
       THEN UNCHANGED settingsWrites
       ELSE /\ Len(settingsWrites) < MaxWrites
            /\ settingsWrites' = Append(settingsWrites, initialSolarSettings)
    /\ solarSettings' = settingsSetFor(settingsDoc)
    /\ settingsAreInitial' = ~settingsDoc.exists
    /\ isDataLoading' = FALSE
    /\ settingsSeen' = TRUE
    /\ IF settingsDoc.exists \/ ~settingsAreInitial
       THEN /\ rerender(view, FALSE, rooms, devices, settingsSetFor(settingsDoc))
            /\ newDeviceState' = formAfterRender(view, FALSE, rooms)
            /\ isAddingDevice' = addingAfterRender(view, FALSE)
       ELSE IF isDataLoading
       THEN spinnerEnds /\ UNCHANGED buildingMetrics
       ELSE UNCHANGED <<roomsWithMetrics, buildingMetrics, newDeviceState, isAddingDevice,
                        inflight, isLoading, error>>
    /\ responded' = NoResponse
    /\ UNCHANGED <<settingsDoc, settingsListening>>
    /\ UNCHANGED <<view, rooms, devices, recommendations, detached>>
    /\ UNCHANGED pendingAdds
    /\ UNCHANGED <<calcVars, storeVars, bootVars>>

\* the error callback of onSnapshot(settingsRef): the error is logged and
\* setIsLoading(false); the listener is ended, solarSettings stays what it
\* was and nothing is written.  If the spinner was showing, the view is
\* rendered now, from the metrics the memo holds; otherwise no state changes
\* and nothing is rendered
SettingsError ==
    /\ subscribed
    /\ settingsListening
    /\ settingsListening' = FALSE
    /\ isDataLoading' = FALSE
    /\ IF isDataLoading
       THEN spinnerEnds
       ELSE UNCHANGED <<roomsWithMetrics, newDeviceState, isAddingDevice, inflight, isLoading,
                        error>>
    /\ responded' = NoResponse
    /\ UNCHANGED <<settingsDoc, settingsWrites, settingsSeen>>
    /\ UNCHANGED <<view, rooms, devices, solarSettings, settingsAreInitial, buildingMetrics, recommendations,
                   detached>>
    /\ UNCHANGED pendingAdds
    /\ UNCHANGED <<calcVars, storeVars, bootVars>>

\* updateSolarSettings(data), reachable once the views are rendered:
\* setDoc(..., data, { merge: true }) is issued
updateSolarSettings(data) ==
    /\ ~isDataLoading
    /\ Len(settingsWrites) < MaxWrites
    /\ settingsWrites' = Append(settingsWrites, data)
    /\ UNCHANGED <<settingsDoc, settingsSeen, settingsListening>>
    /\ UNCHANGED <<calcVars, storeVars, viewVars, formVars, bootVars>>

\* the oldest setDoc call is applied to the document and the listener is
\* notified
ApplySetDoc ==
    /\ settingsWrites # <<>>
    /\ settingsDoc' = [exists |-> TRUE,
                       data   |-> setDocMerge(settingsDoc.data, Head(settingsWrites))]
    /\ settingsWrites' = Tail(settingsWrites)
    /\ settingsSeen' = FALSE
    /\ UNCHANGED settingsListening
    /\ UNCHANGED <<calcVars, storeVars, viewVars, formVars, bootVars>>

\* the oldest setDoc call is rejected by the store: the document stays as
\* it is; the listener's call logs the error (.catch(console.error)), the
\* call of updateSolarSettings rejects its promise, and no state changes
RejectSetDoc ==
    /\ settingsWrites # <<>>
    /\ settingsWrites' = Tail(settingsWrites)
    /\ UNCHANGED <<settingsDoc, settingsSeen, settingsListening>>
    /\ UNCHANGED <<calcVars, storeVars, viewVars, formVars, bootVars>>

\* variant: generateRecommendations without its guard
ClickGenerateUnguarded ==
    /\ Mounted
    /\ ~isLoading
    /\ Len(roomsWithMetrics) > 0
    /\ startCall(roomsWithMetrics, "button")
    /\ responded' = NoResponse
    /\ UNCHANGED <<view, isDataLoading, rooms, devices, solarSettings, settingsAreInitial, roomsWithMetrics,
                   buildingMetrics, recommendations, detached>>
    /\ UNCHANGED <<calcVars, storeVars, settingsVars, formVars, bootVars>>

\* onClick of the generate button (disabled while isLoading or without
\* rooms): generateRecommendations
ClickGenerate ==
    /\ Mounted
    /\ ~isLoading
    /\ Len(roomsWithMetrics) > 0
    /\ IF Len(roomsWithMetrics) = 0 \/ IsZero(buildingMetrics.totalEnergyKWhDay)
       THEN /\ error' = GuardMessage
            /\ recommendations' = Null
            /\ UNCHANGED <<isLoading, inflight>>
       ELSE /\ startCall(roomsWithMetrics, "button")
            /\ UNCHANGED recommendations
    /\ responded' = NoResponse
    /\ UNCHANGED <<view, isDataLoading, rooms, devices, solarSettings, settingsAreInitial, roomsWithMetrics,
                   buildingMetrics, detached>>
    /\ UNCHANGED <<calcVars, storeVars, settingsVars, formVars, bootVars>>

RemoveAt(list, i) == SubSeq(list, 1, i - 1) \o SubSeq(list, i + 1, Len(list))

\* the await of generateRecommendations resumes: setRecommendations(result),
\* then setIsLoading(false) in the finally block
AdvisoryResponds(i, outcome) ==
    /\ recommendations' = generateLLMRecommendation(inflight[i].roomAnalysis, outcome)
    /\ isLoading' = FALSE
    /\ inflight' = RemoveAt(inflight, i)
    /\ responded' = [kind |-> "response", outcome |-> outcome, roomAnalysis |-> inflight[i].roomAnalysis]
    /\ UNCHANGED <<view, isDataLoading, rooms, devices, solarSettings, settingsAreInitial, roomsWithMetrics,
                   buildingMetrics, error, detached>>
    /\ UNCHANGED <<calcVars, storeVars, settingsVars, formVars, bootVars>>

\* a request of an unmounted view is answered: its state updates are dropped
DetachedResponds ==
    /\ detached > 0
    /\ detached' = detached - 1
    /\ responded' = NoResponse
    /\ UNCHANGED <<view, isDataLoading, rooms, devices, solarSettings, settingsAreInitial, roomsWithMetrics,
                   buildingMetrics, recommendations, isLoading, error, inflight>>
    /\ UNCHANGED <<calcVars, storeVars, settingsVars, formVars, bootVars>>

\* handleSave of SolarComparisonView: updateSolarSettings(settings)
SaveSettings ==
    /\ view = "solar"
    /\ \E data \in ViewUpserts : updateSolarSettings(data)

Init ==
    /\ ViewIdle
    /\ CalcIdle
    /\ StoreIdle
    /\ SettingsStart
    /\ FormIdle
    /\ BootDone

Next ==
    \/ \E v \in Views : Navigate(v)
    \/ \E created \in ViewRoomLists : RoomsSnapshot(created)
    \/ \E deviceList \in ViewDeviceLists : DevicesSnapshot(deviceList)
    \/ SettingsRead
    \/ SettingsError
    \/ SaveSettings
    \/ ApplySetDoc
    \/ RejectSetDoc
    \/ ClickGenerate
    \/ \E i \in 1..Len(inflight) : \E outcome \in ViewOutcomes : AdvisoryResponds(i, outcome)
    \/ DetachedResponds

Spec == Init /\ [][Next]_vars

----------------------------------------------------------------------------
(* Claims about the RecommendationsView, checked under Spec *)

\* C4: every advisory request is the direct result of pressing the generate
\* button; no change of rooms, devices or settings and no mount of the view
\* starts one.
C4_OnlyUserTriggered ==
    \A i \in 1..Len(inflight) : inflight[i].by = "button"

\* C5: at most one advisory request of the view is outstanding; no
\* invocation starts a request while isLoading is set by an earlier one.
C5_SingleOutstanding == Len(inflight) <= 1

\* C6: when a failed advisory call completes, isLoading is false, error is
\* null and recommendations holds the rule-based fallback of the rooms the
\* call was started with.
C6_FailureNeverAnError ==
    (responded.kind = "response" /\ AdvisoryFailed(responded.outcome))
    => /\ isLoading = FALSE
       /\ error = NoError
       /\ IsRuleBased(recommendations, responded.roomAnalysis)

\* generateRecommendations is invoked on data that its guard rejects
GuardedInvocation ==
    /\ ClickGenerate
    /\ Len(roomsWithMetrics) = 0 \/ IsZero(buildingMetrics.totalEnergyKWhDay)

\* C23: when generateRecommendations is invoked with no rooms or with a
\* building totalEnergyKWhDay of 0, no advisory request is issued, isLoading
\* stays false, recommendations is set to null and the error message asking
\* to add rooms and devices is set.
C23_GuardRejects ==
    [][ GuardedInvocation
        => /\ inflight' = inflight
           /\ detached' = detached
           /\ isLoading = FALSE /\ isLoading' = FALSE
           /\ recommendations' = Null
           /\ error' = GuardMessage ]_vars

\* the guard has rejected an invocation on a room list whose only element
\* is the settings document: the button is enabled though no room exists
C23_Witness ==
    /\ Mounted
    /\ Len(roomsWithMetrics) = 1
    /\ roomsWithMetrics[1].id = SettingsDocId
    /\ IsZero(buildingMetrics.totalEnergyKWhDay)
    /\ buildingMetrics = calculateBuildingTotals(rooms, devices, solarSettings).building
    /\ error = GuardMessage
    /\ recommendations = Null
    /\ ~isLoading
    /\ inflight = <<>>

\* C18: in every state, and so after every delivered change of rooms,
\* devices or settings, the published room metrics and building metrics
\* equal calculateBuildingTotals applied to the current rooms, devices and
\* settings; no derived value computed from an older snapshot remains
\* published.
C18_PublishedIsComputed ==
    /\ roomsWithMetrics = calculateBuildingTotals(rooms, devices, solarSettings).rooms
    /\ buildingMetrics = calculateBuildingTotals(rooms, devices, solarSettings).building

\* the same room records, whatever their order
SameRooms(published, computed) ==
    /\ Len(published) = Len(computed)
    /\ \E p \in IndexPermutations(Len(computed)) :
          \A i \in 1..Len(computed) : published[i] = computed[p[i]]

\* what does hold of the published metrics: the building metrics are those
\* of the current inputs, and so are the room records up to their order
PublishedCurrentUpToOrder ==
    /\ buildingMetrics = memoTotals(rooms, devices, solarSettings).building
    /\ SameRooms(roomsWithMetrics, memoTotals(rooms, devices, solarSettings).rooms)

\* C26: rendering a view leaves the published roomsWithMetrics unchanged:
\* in every state its rooms are in the order of the input room list, as
\* calculateBuildingTotals returned them, so that the advisory payload and
\* the fallback list the rooms in input order whether or not the Dashboard
\* was shown before.
C26_InputOrderKept ==
    roomsWithMetrics = buildingRooms(rooms, devices, solarSettings)

----------------------------------------------------------------------------
(* SpecSettings: the settings document, its listener and the upserts of    *)
(* updateSolarSettings.  A setDoc call is issued in one step and applied   *)
(* to the document in a later one, in the order of issue; the listener is  *)
(* notified after every change of the document.                            *)

SettingsFields == DOMAIN initialSolarSettings

InitSettings ==
    /\ FormIdle
    /\ BootDone
    /\ settingsDoc \in SettingsDocs
    /\ settingsWrites = <<>>
    /\ settingsSeen = FALSE
    /\ settingsListening = TRUE
    /\ ViewIdle
    /\ CalcIdle
    /\ StoreIdle

\* the settings document is also deleted: by deleteRoom from the card that
\* the room list shows for it
NextSettings ==
    \/ SettingsRead
    \/ SettingsError
    \/ \E data \in SettingsUpserts : updateSolarSettings(data)
    \/ ApplySetDoc
    \/ RejectSetDoc
    \/ \E r \in RoomCards : deleteRoomInvoke(r)
    \/ \E i \in 1..Len(delCalls) : deleteRoomDoc(i)
    \/ \E i \in 1..Len(delCalls) : deleteRoomCascade(i)

SpecSettings == InitSettings /\ [][NextSettings]_vars

----------------------------------------------------------------------------
(* Claims about the settings, checked under SpecSettings *)

\* the settings in effect for a stored document
EffectiveOf(doc) == doc.data @@ initialSolarSettings

\* once the listener has seen the document and no write is on its way, the
\* document exists and the effective settings are its fields over the
\* defaults
C16_Stored ==
    (~isDataLoading /\ settingsSeen /\ settingsWrites = <<>>)
      => /\ settingsDoc.exists
         /\ solarSettings = EffectiveOf(settingsDoc)

\* a first read that finds no document makes the defaults effective and
\* issues their write
C16_FirstRead ==
    (SettingsRead /\ isDataLoading /\ ~settingsDoc.exists)
    => /\ solarSettings' = initialSolarSettings
       /\ settingsWrites' = Append(settingsWrites, initialSolarSettings)

\* an applied upsert sets the fields it names and keeps the others
C16_Upsert ==
    ApplySetDoc
    => \A f \in SettingsFields :
         EffectiveOf(settingsDoc')[f]
           = IF f \in DOMAIN Head(settingsWrites)
             THEN Head(settingsWrites)[f]
             ELSE EffectiveOf(settingsDoc)[f]

DeliveredCurrent == settingsListening /\ settingsSeen /\ ~isDataLoading

----------------------------------------------------------------------------
(* SpecStore: the storage operations above together with the settings      *)
(* listener, which writes the defaults again when the settings document is *)
(* deleted through its card in the room list.                              *)

\* a new session: empty collections, no settings document, and the settings
\* listener about to deliver its first snapshot
InitStore ==
    /\ StoreIdle
    /\ settingsDoc = AbsentDoc
    /\ settingsWrites = <<>>
    /\ settingsSeen = FALSE
    /\ settingsListening = TRUE
    /\ FormIdle
    /\ BootDone
    /\ CalcIdle
    /\ ViewIdle

NextStore ==
    \/ \E i \in RoomIdPool : addRoom(i)
    \/ \E r \in RoomCards : addDevice(r)
    \/ \E id \in usedDevices : \E data \in DeviceUpdates(RoomCards) : updateDevice(id, data)
    \/ \E id \in usedDevices : deleteDevice(id)
    \/ \E r \in RoomCards : deleteRoomInvoke(r)
    \/ \E i \in 1..Len(delCalls) : deleteRoomDoc(i)
    \/ \E i \in 1..Len(delCalls) : deleteRoomCascade(i)
    \/ \E id \in usedDevices : applyDelete(id)
    \/ SettingsRead
    \/ SettingsError
    \/ ApplySetDoc
    \/ RejectSetDoc

SpecStore == InitStore /\ [][NextStore]_vars

----------------------------------------------------------------------------
(* Claims about the storage operations, checked under SpecStore *)

\* deleteRoom call c has returned and every deleteDoc it fired is applied
CascadeOver(c) == c.pc = "finished" /\ c.docs \cap pendingDeletes = {}

\* C2: once a deleteRoom(roomId) call has finished (it has returned and the
\* deletions it issued are applied), the device store holds no device whose
\* roomId is roomId, whatever other storage operations ran in between.
C2_CascadeOnFinish ==
    [][ \A i \in 1..Len(delCalls') :
          ( /\ delCalls'[i].pc = "finished"
            /\ delCalls'[i].docs \cap pendingDeletes' = {}
            /\ ~(i <= Len(delCalls) /\ CascadeOver(delCalls[i])) )
          => { d \in storeDevices' : d.roomId = delCalls'[i].roomId } = {} ]_vars

\* C19: in every state of the two collections, which the listeners deliver
\* as snapshots to the engine, every device's roomId is the id of a stored
\* room, under any sequence of addRoom, addDevice, deleteDevice and
\* deleteRoom, the intermediate states of deleteRoom included.
\* (The settings document counts as stored here: a device of the form's
\* initial roomId 'settings' is not what the claim is about.)
C19_NoOrphanDevice == \A d \in storeDevices : d.roomId \in roomDocIds

----------------------------------------------------------------------------
(* SpecForm: the add-device form of RoomDeviceManager.  The fields hold    *)
(* the text of their inputs; handleAddDevice converts the three numeric    *)
(* fields with Number() and passes the device to addDevice.                *)

\* the texts typed into the fields
FormTexts ==
    [ name       |-> {"New Device", ""},
      quantity   |-> {"1", ""},
      powerW     |-> {"100", "-5"},
      usageHours |-> {"4", "30"} ]

\* Number(text) for the texts of the numeric inputs; the empty text is 0
NumberOf ==
    ("" :> Whole(0)) @@ ("1" :> Whole(1)) @@ ("4" :> Whole(4))
    @@ ("30" :> Whole(30)) @@ ("100" :> Whole(100)) @@ ("-5" :> Whole(-5))

\* the add-device form is on the screen: isAddingDevice && rooms.length > 0
\* in a rendered RoomDeviceManager, isAddingDevice being toggled by a button
\* that is enabled while there are rooms
formShown == managerRendered(view, isDataLoading) /\ isAddingDevice /\ Len(rooms) > 0

\* onClick of the "Add New Device" / "Close Device Form" button, which is
\* disabled without rooms: setIsAddingDevice(!isAddingDevice)
ToggleDeviceForm ==
    /\ managerRendered(view, isDataLoading)
    /\ Len(rooms) > 0
    /\ isAddingDevice' = ~isAddingDevice
    /\ UNCHANGED <<newDeviceState, pendingAdds>>
    /\ UNCHANGED <<calcVars, storeVars, viewVars, settingsVars, bootVars>>

\* onChange of one input of the form
TypeField(field, text) ==
    /\ formShown
    /\ newDeviceState[field] # text
    /\ newDeviceState' = [newDeviceState EXCEPT ![field] = text]
    /\ UNCHANGED <<isAddingDevice, pendingAdds>>
    /\ UNCHANGED <<calcVars, storeVars, viewVars, settingsVars, bootVars>>

\* onChange of the room select, whose options are the elements of rooms
SelectRoom(i) ==
    /\ formShown
    /\ i \in 1..Len(rooms)
    /\ newDeviceState.roomId # rooms[i].id
    /\ newDeviceState' = [newDeviceState EXCEPT !.roomId = rooms[i].id]
    /\ UNCHANGED <<isAddingDevice, pendingAdds>>
    /\ UNCHANGED <<calcVars, storeVars, viewVars, settingsVars, bootVars>>

\* deviceData of handleAddDevice
deviceDataOf(form) ==
    [quantity   |-> NumberOf[form.quantity],
     powerW     |-> NumberOf[form.powerW],
     usageHours |-> NumberOf[form.usageHours]]

\* onClick of "Add Device": handleAddDevice up to its await; addDevice has
\* called addDoc with deviceData, and the form stays as it is until the
\* write is acknowledged
handleAddDevice ==
    /\ formShown
    /\ newDeviceState.name # "" /\ newDeviceState.roomId # NoRoom
    /\ Cardinality(usedDevices) + Len(pendingAdds) < MaxDevices
    /\ pendingAdds' = Append(pendingAdds, [roomId     |-> newDeviceState.roomId,
                                           deviceData |-> deviceDataOf(newDeviceState),
                                           live       |-> TRUE])
    /\ UNCHANGED <<newDeviceState, isAddingDevice>>
    /\ UNCHANGED <<calcVars, storeVars, viewVars, settingsVars, bootVars>>

\* the oldest addDoc is acknowledged: the device is stored, and
\* handleAddDevice resumes with setNewDeviceState({ ...initialDevice,
\* roomId: newDeviceState.roomId }), the roomId being that of the render
\* the button was clicked in, and setIsAddingDevice(false); the updates are
\* dropped if that RoomDeviceManager has been unmounted
addDeviceSettles ==
    /\ pendingAdds # <<>>
    /\ storeDevices' = storeDevices \cup
          {Device(NextId(usedDevices), Head(pendingAdds).roomId, Head(pendingAdds).deviceData)}
    /\ usedDevices' = usedDevices \cup {NextId(usedDevices)}
    /\ pendingAdds' = Tail(pendingAdds)
    /\ newDeviceState' = IF Head(pendingAdds).live
                         THEN formReset(Head(pendingAdds).roomId)
                         ELSE newDeviceState
    /\ isAddingDevice' = (~Head(pendingAdds).live /\ isAddingDevice)
    /\ UNCHANGED <<storeRooms, usedRooms, delCalls, pendingDeletes>>
    /\ UNCHANGED <<calcVars, viewVars, settingsVars, bootVars>>

\* the oldest addDoc is rejected: nothing is stored, the await of
\* handleAddDevice throws and the form stays as it is
addDeviceFails ==
    /\ pendingAdds # <<>>
    /\ pendingAdds' = Tail(pendingAdds)
    /\ UNCHANGED <<newDeviceState, isAddingDevice>>
    /\ UNCHANGED <<calcVars, storeVars, viewVars, settingsVars, bootVars>>

\* RoomDeviceManager is open in a session whose settings document exists
\* and has been delivered; no rooms snapshot has arrived yet
InitForm ==
    /\ StoreIdle
    /\ FormIdle
    /\ BootDone
    /\ settingsDoc = StoredDefaults
    /\ settingsWrites = <<>>
    /\ settingsSeen = TRUE
    /\ settingsListening = TRUE
    /\ ViewAt("rooms", FALSE)
    /\ CalcIdle

NextForm ==
    \/ \E created \in ViewRoomLists : RoomsSnapshot(created)
    \/ ToggleDeviceForm
    \/ \E field \in DOMAIN FormTexts : \E text \in FormTexts[field] : TypeField(field, text)
    \/ \E i \in 1..Len(rooms) : SelectRoom(i)
    \/ handleAddDevice
    \/ addDeviceSettles
    \/ addDeviceFails

SpecForm == InitForm /\ [][NextForm]_vars

----------------------------------------------------------------------------
(* Claims about the add-device form, checked under SpecForm *)

\* C17: the inventory-entry boundary stores a device only if quantity > 0,
\* powerW >= 0 and usageHours is in [0, 24]; every stored device, and so
\* every device that reaches calculateBuildingTotals, satisfies the three
\* conditions.
C17_OnlyValidDevicesStored ==
    \A d \in storeDevices :
      /\ Gt(d.quantity, Whole(0))
      /\ ~Lt(d.powerW, Whole(0))
      /\ ~Lt(d.usageHours, Whole(0))
      /\ ~Gt(d.usageHours, Whole(24))

----------------------------------------------------------------------------
(* SpecBoot: App from its mount.  The effect of useFirebase initialises    *)
(* Firebase and waits for the anonymous user; the effect of useEnergyData  *)
(* attaches the listeners once isAuthReady, db and userId are all set;     *)
(* from then on App behaves as in Spec.                                    *)

\* what initializeApp, getFirestore and getAuth do in the try block
InitOutcomes == {"ok", "initializeApp throws", "getFirestore throws", "getAuth throws"}

\* a value that was never assigned
Undefined == [kind |-> "undefined"]

\* isLoading: isFirebaseLoading of App's destructuring; useFirebase returns
\* { db, auth, userId, isAuthReady }, which has no isLoading
isFirebaseLoading == Undefined

\* a || b of JavaScript, for a an undefined value or a boolean
JsOr(a, b) == IF a = Undefined THEN b ELSE IF a = [kind |-> "boolean", value |-> TRUE] THEN TRUE ELSE b

\* const isLoading = isFirebaseLoading || isDataLoading: the spinner is
\* rendered instead of the view while it is true
appIsLoading == JsOr(isFirebaseLoading, isDataLoading)

\* the effect of useFirebase: the try block up to onAuthStateChanged, or
\* the catch block with setIsAuthReady(true)
initializeFirebase(outcome) ==
    /\ firebasePc = "mounted"
    /\ db' = IF outcome \in {"ok", "getAuth throws"} THEN "firestore" ELSE "unset"
    /\ firebasePc' = IF outcome = "ok" THEN "listening" ELSE "failed"
    /\ isAuthReady' = (outcome # "ok")
    /\ UNCHANGED <<userId, subscribed>>
    /\ UNCHANGED <<calcVars, storeVars, viewVars, settingsVars, formVars>>

\* onAuthStateChanged callback without a user: signInAnonymously(auth)
authStateNoUser ==
    /\ firebasePc = "listening"
    /\ firebasePc' = "signingIn"
    /\ UNCHANGED <<db, userId, isAuthReady, subscribed>>
    /\ UNCHANGED <<calcVars, storeVars, viewVars, settingsVars, formVars>>

\* onAuthStateChanged callback with the user, after the sign-in or as the
\* first callback of a session that Firebase Auth has kept: setUserId,
\* setIsAuthReady(true)
authStateUser ==
    /\ firebasePc \in {"listening", "signingIn"}
    /\ firebasePc' = "signedIn"
    /\ userId' = 1
    /\ isAuthReady' = TRUE
    /\ UNCHANGED <<db, subscribed>>
    /\ UNCHANGED <<calcVars, storeVars, viewVars, settingsVars, formVars>>

\* the effect of useEnergyData past its guard: the three onSnapshot calls
subscribe ==
    /\ ~subscribed
    /\ isAuthReady /\ db # "unset" /\ userId # NoUser
    /\ subscribed' = TRUE
    /\ UNCHANGED <<firebasePc, db, userId, isAuthReady>>
    /\ UNCHANGED <<calcVars, storeVars, viewVars, settingsVars, formVars>>

InitBoot ==
    /\ firebasePc = "mounted"
    /\ db = "unset"
    /\ userId = NoUser
    /\ isAuthReady = FALSE
    /\ subscribed = FALSE
    /\ ViewIdle
    /\ CalcIdle
    /\ StoreIdle
    /\ SettingsStart
    /\ FormIdle

NextBoot ==
    \/ \E outcome \in InitOutcomes : initializeFirebase(outcome)
    \/ authStateNoUser
    \/ authStateUser
    \/ subscribe
    \/ \E created \in ViewRoomLists : RoomsSnapshot(created)
    \/ \E deviceList \in ViewDeviceLists : DevicesSnapshot(deviceList)
    \/ SettingsRead
    \/ SettingsError
    \/ SaveSettings
    \/ ApplySetDoc
    \/ RejectSetDoc
    \/ \E v \in Views : Navigate(v)
    \/ ClickGenerate
    \/ \E i \in 1..Len(inflight) : \E outcome \in ViewOutcomes : AdvisoryResponds(i, outcome)
    \/ DetachedResponds

SpecBoot == InitBoot /\ [][NextBoot]_vars

\* every effect runs once its component has rendered, and the anonymous
\* sign-in is answered; when the store delivers to attached listeners is
\* left open
FairSpecBoot ==
    /\ SpecBoot
    /\ WF_vars(\E outcome \in InitOutcomes : initializeFirebase(outcome))
    /\ WF_vars(authStateNoUser)
    /\ WF_vars(authStateUser)
    /\ WF_vars(subscribe)

----------------------------------------------------------------------------
(* Claims about the start of App, checked under FairSpecBoot *)

\* C24: if Firebase initialization throws, the combined loading flag of App
\* (isFirebaseLoading || isDataLoading) eventually becomes false and a view
\* other than the loading spinner is rendered.
C24_MovesPastInitialization == (firebasePc = "failed") ~> ~appIsLoading

\* after a failed initialization the listeners are never attached and the
\* spinner stays, whatever the store would deliver
StuckAfterFailure == (firebasePc = "failed") => (~subscribed /\ appIsLoading)

----------------------------------------------------------------------------
(* SpecCollection: the rooms collection with its two listeners.  The       *)
(* settings document is doc(db, roomCollectionPath, 'settings'), a         *)
(* document of the collection that the rooms listener reads.  No device    *)
(* exists in this specification, so the room metrics do not depend on the  *)
(* settings.                                                               *)

\* the room list mapped from the documents of the rooms collection
roomCollectionDocs(roomIds, doc) == roomListOf(createdRooms(roomIds), doc)

\* the callback of onSnapshot(qRooms) on the collection as it is stored
RoomsRead == RoomsSnapshot(createdRooms(storeRooms))

InitCollection == InitSettings

NextCollection ==
    \/ \E i \in RoomIdPool : addRoom(i)
    \/ RoomsRead
    \/ SettingsRead
    \/ SettingsError
    \/ \E data \in TariffUpserts : updateSolarSettings(data)
    \/ ApplySetDoc
    \/ RejectSetDoc
    \/ \E r \in RoomCards : deleteRoomInvoke(r)
    \/ \E i \in 1..Len(delCalls) : deleteRoomDoc(i)
    \/ \E i \in 1..Len(delCalls) : deleteRoomCascade(i)

SpecCollection == InitCollection /\ [][NextCollection]_vars

----------------------------------------------------------------------------
(* Claims about the rooms collection, checked under SpecCollection *)

\* C25: the room list delivered to calculateBuildingTotals holds only
\* records created by addRoom; the settings record, once materialised or
\* upserted, is never an element of it, and the number of rooms with
\* metrics is at most (and once the listener has caught up, equal to) the
\* number of rooms the user created.
C25_RoomListHoldsRoomsOnly ==
    /\ \A i \in 1..Len(rooms) : rooms[i].id \in storeRooms
    /\ Len(roomsWithMetrics) <= Cardinality(storeRooms)
    /\ rooms = roomCollectionDocs(storeRooms, settingsDoc)
         => Len(roomsWithMetrics) = Cardinality(storeRooms)

----------------------------------------------------------------------------
(* Claims about the ROI of rooms and building, checked under SpecCalc *)

\* solarCostPerKW / (365.25 * sunlightHours * efficiencyFactor * electricityRate)
SettingsRoi(s) ==
    Div(s.solarCostPerKW,
        Mul(Mul(Mul(DaysPerYear, s.sunlightHours), s.efficiencyFactor), s.electricityRate))

\* the returned rooms with positive consumption
ConsumingRooms ==
    { i \in 1..Len(calcResult.rooms) :
        Gt(calcResult.rooms[i].metrics.energyKWhDay, Whole(0)) }

\* the settings generate energy and charge for it
ProductiveSettings ==
    /\ Gt(Mul(calcSettings.sunlightHours, calcSettings.efficiencyFactor), Whole(0))
    /\ Gt(calcSettings.electricityRate, Whole(0))

\* every room with positive consumption has the ROI given by the settings,
\* up to the rounding of the operations it is computed with
RoomsShareSettingsRoi ==
    \A i \in ConsumingRooms :
        Near(RawOf(calcResult.rooms[i].metrics.installationCost,
                   calcResult.rooms[i].metrics.yearlySavings),
             SettingsRoi(calcSettings))

\* the rooms with positive consumption get the same suggested action and
\* the same fallback suggestion
RoomsShareSuggestion ==
    \A i, j \in ConsumingRooms :
        /\ suggestedAction(calcResult.rooms[i].metrics.roiYears)
             = suggestedAction(calcResult.rooms[j].metrics.roiYears)
        /\ ruleBasedSuggestion(calcResult.rooms[i].metrics.roiYears)
             = ruleBasedSuggestion(calcResult.rooms[j].metrics.roiYears)

\* C27: for settings with sunlightHours * efficiencyFactor > 0 and
\* electricityRate > 0, every room with positive consumption has the
\* unclamped ROI solarCostPerKW / (365.25 * sunlightHours * efficiencyFactor
\* * electricityRate), which is also the building's ROI, and all such rooms
\* receive the same suggested action and the same fallback suggestion.
C27_UniformRoi ==
    (calcDone /\ ProductiveSettings /\ ConsumingRooms # {})
    => /\ RoomsShareSettingsRoi
       /\ Near(calcResult.building.paybackYears, SettingsRoi(calcSettings))
       /\ RoomsShareSuggestion

\* the least normal number, 2^-1022: a lesser positive number is subnormal
\* and carries fewer than 53 bits
LeastNormal == Round(1, <<1>>, MinExponent + 52)

\* 0, or a finite number with all its 53 bits
IsZeroOrNormal(x) == IsFinite(x) /\ (IsZero(x) \/ ~Lt(Magnitude(x), LeastNormal))

\* every figure of the rooms is 0 or a normal number
RoomFiguresNormal ==
    \A i \in 1..Len(calcResult.rooms) :
        /\ IsZeroOrNormal(calcResult.rooms[i].metrics.energyKWhDay)
        /\ IsZeroOrNormal(calcResult.rooms[i].metrics.requiredCapacityKW)
        /\ IsZeroOrNormal(calcResult.rooms[i].metrics.installationCost)
        /\ IsZeroOrNormal(calcResult.rooms[i].metrics.yearlySavings)

\* what holds whenever no figure overflows or loses bits: the rooms' ROIs
\* agree up to rounding
UniformRoomRoi ==
    (calcDone /\ ProductiveSettings /\ RoomFiguresNormal) => RoomsShareSettingsRoi

\* what holds when every device is one that a validating form would store:
\* the building's ROI agrees with the rooms' up to rounding
UniformRoiOfValidDevices ==
    (calcDone /\ ProductiveSettings /\ ConsumingRooms # {} /\ calcDevices \in DeviceLists)
    => /\ RoomsShareSettingsRoi
       /\ Near(calcResult.building.paybackYears, SettingsRoi(calcSettings))

\* what fails also for such devices: two rooms whose ROIs round to either
\* side of a threshold are given different suggestions
SameSuggestionOfValidDevices ==
    (calcDone /\ ProductiveSettings /\ calcDevices \in DeviceLists) => RoomsShareSuggestion

====
